---- MODULE Spec2Model ----
(***************************************************************************)
(* A model of the layout engine of scorredoira/pdf (src/layout.go) and of  *)
(* the parts of the parser (src/ast.go) and renderer entry point that feed *)
(* it.  Lengths are integers in an arbitrary unit; the code's float64      *)
(* arithmetic is exact on the values used here (sums, differences and      *)
(* divisions whose result is an integer).                                  *)
(*                                                                         *)
(* Pagination (splitPages / splitPage / splitTable) is modelled as a state *)
(* machine over a heap of widgets: the Go code shares *Widget pointers     *)
(* between the source page's child list and the output pages, so a widget  *)
(* is an index into `heap` and a page holds a sequence of such indices.    *)
(***************************************************************************)
EXTENDS Integers, Sequences, FiniteSets, TLC

VARIABLES
    pc,         \* position in splitPages: "start", "loop", "table", "done"
    page,       \* the authored (source) page being split
    children,   \* page.Children: sequence of heap ids (sorted by splitPage)
    heap,       \* every *Widget reachable from the page or from an output page
    pages,      \* the output pages built so far (doc.Pages once pc = "done")
    i,          \* loop index of splitPage (1-based)
    currentY,   \* splitPage's currentY
    curPage,    \* splitPage's currentPage: index into pages, 0 = nil
    st,         \* the locals of a running splitTable call
    formatter,  \* Layouter.formatter: TRUE when a NumberFormatter was given
    num,        \* setPageNumbers: its position, the document's pages, its groups
    lay,        \* initWidgetSize: its position, the page's inner width, the widget
    run         \* one function followed step by step: its position and its locals

vars == <<pc, page, children, heap, pages, i, currentY, curPage, st, formatter,
          num, lay, run>>

\* while one part of the engine is being followed the others stand still
NumIdle == [pc |-> "idle"]
LayIdle == [pc |-> "idle"]
RunIdle == [pc |-> "idle"]

---------------------------------------------------------------------------
(* Bounds of the model *)

MaxChildren == 3        \* children of the authored page
MaxRows == 3            \* data rows of a table
\* splitTable stops being followed once this many output pages exist
MaxPages == MaxChildren + MaxRows + 3

Nil == 0 - 1            \* a nil *float64 (carry values are never negative here)

PageInnerHeights == {8}
PageGaps == {0, 1}
DivHeights == {3, 6, 9}         \* 9 is taller than the page
DeclaredYs == {4}               \* a child that declares y
RowHeight == [big |-> 9, normal |-> 3, header |-> 1]
BreakMargins == {0, 4}
TableMargins == {0, 1}          \* Margin.Top + Margin.Bottom of a table

---------------------------------------------------------------------------
(* Generic helpers *)

RECURSIVE SumHeights(_)
SumHeights(rows) ==
    IF rows = <<>> THEN 0 ELSE Head(rows).outerH + SumHeights(Tail(rows))

Range(s) == {s[k] : k \in 1..Len(s)}

Prefix(s, n) == SubSeq(s, 1, n)
Suffix(s, n) == SubSeq(s, n + 1, Len(s))    \* s[n:] of Go, n 0-based

---------------------------------------------------------------------------
(* The widgets the parser hands to the layout engine.                      *)
(*                                                                         *)
(* A cell keeps what pagination reads: its background (nil, the table's    *)
(* alternate colour, or a colour the author declared), IsHeader, and its   *)
(* text (one value line holding a number, or text that is no number).     *)
(* `declared` remembers what the author wrote; `src` and `copy` name the   *)
(* row object: its index in the authored table, and whether it is a clone  *)
(* of row 0 made by splitTable.                                            *)

NotANumber == [isNum |-> FALSE, v |-> 0]
Number(n) == [isNum |-> TRUE, v |-> n]

Cell(bg, isHeader, text) ==
    [bg |-> bg, declared |-> bg, isHeader |-> isHeader, nlines |-> 1, text |-> text]

\* ast.go addTableHeaderColumns: one header cell per column, IsHeader = true
HeaderRow ==
    [outerY |-> 0, outerH |-> RowHeight.header, src |-> 0, copy |-> FALSE,
     cells |-> <<Cell("nil", TRUE, NotANumber), Cell("nil", TRUE, NotANumber)>>]

\* data row k: column 0 is a label, column 1 holds the amount 2^(k-1)
DataRow(k, h, bg) ==
    [outerY |-> 0, outerH |-> h, src |-> k, copy |-> FALSE,
     cells |-> <<Cell(bg, FALSE, NotANumber), Cell("nil", FALSE, Number(2 ^ (k - 1)))>>]

\* ast.go setAlternateColor, run by parseTable when alternateColor is set:
\* rows 2, 4, ... (0-based) get the colour on the cells that have none
setAlternateColorParse(rows) ==
    [k \in 1..Len(rows) |->
        IF (k - 1) >= 1 /\ (k - 1) % 2 = 0
        THEN [rows[k] EXCEPT !.cells =
                [c \in 1..Len(@) |->
                    IF @[c].bg = "nil" THEN [@[c] EXCEPT !.bg = "alt"] ELSE @[c]]]
        ELSE rows[k]]

\* layout.go setWidgetPosition on a table (column direction, gap 0): row k's
\* OuterY is the sum of the outer heights of the rows before it
RECURSIVE flowRows(_, _)
flowRows(rows, y) ==
    IF rows = <<>> THEN <<>>
    ELSE <<[Head(rows) EXCEPT !.outerY = y]>>
            \o flowRows(Tail(rows), y + Head(rows).outerH)

Div(h, y) ==
    [type |-> "div", Y |-> y, outerY |-> y, outerH |-> h, innerH |-> h,
     marginV |-> 0, breakMargin |-> 0, hasColumns |-> FALSE, carryColumn |-> Nil,
     alt |-> FALSE, rows |-> <<>>, carryLast |-> Nil, carryNext |-> Nil,
     pageNumber |-> 0, src |-> 0]

\* A table as parsed and sized: adjustRowsHeight makes the inner height the
\* sum of the row heights, recalculateFromInnerHeight adds the margin.
Table(rows, hasColumns, carry, alt, bm, mv) ==
    LET rs == flowRows(IF alt THEN setAlternateColorParse(rows) ELSE rows, 0) IN
    [type |-> "table", Y |-> 0, outerY |-> 0,
     outerH |-> SumHeights(rs) + mv, innerH |-> SumHeights(rs),
     marginV |-> mv, breakMargin |-> bm, hasColumns |-> hasColumns,
     carryColumn |-> IF carry THEN 1 ELSE Nil,
     alt |-> alt, rows |-> rs, carryLast |-> Nil, carryNext |-> Nil,
     pageNumber |-> 0, src |-> 0]

---------------------------------------------------------------------------
(* The inputs: an authored page after initSizes and setPositions.          *)
(* setPagePositions calls setWidgetPosition(w, 0, 0) on every page child,  *)
(* so before splitPage a child's OuterY is its declared y, or 0.           *)

DivKinds == {Div(h, 0) : h \in DivHeights} \cup {Div(3, y) : y \in DeclaredYs}

\* the rows of a table: an optional header row, then nData data rows, of
\* which row `big` (0: none) is taller than the page and row `author` (0:
\* none) has a backgroundColor the author declared on its first cell
TableRows(nData, big, author, hasHeader) ==
    (IF hasHeader THEN <<HeaderRow>> ELSE <<>>) \o
    [k \in 1..nData |->
        DataRow(k, IF k = big THEN RowHeight.big ELSE RowHeight.normal,
                   IF k = author THEN "author" ELSE "nil")]

\* tables of the page-splitting inputs: geometry only
PlainTables ==
    {Table(TableRows(n, big, 0, hdr), hdr, FALSE, FALSE, bm, 0) :
        n \in 1..MaxRows, big \in {0, 1}, hdr \in BOOLEAN, bm \in BreakMargins}

\* tables of the table-splitting inputs: colours, carry column, margins.
\* parseTableColumns sets CarryColumn only from a <column carry="true">, so a
\* table with a carry column has columns, and with them a header row.
RichTables ==
    UNION {
        {Table(TableRows(n, big, author, hdr /= "none"), hdr /= "none",
               hdr = "carry", alt, bm, mv) :
            big \in 0..n, author \in (IF alt THEN 0..n ELSE {0}) \cap 0..2,
            bm \in BreakMargins, mv \in TableMargins} :
        n \in 1..MaxRows, hdr \in {"none", "header", "carry"}, alt \in BOOLEAN}

InsertAt(s, p, x) == Prefix(s, p - 1) \o <<x>> \o Suffix(s, p - 1)

DivSeqs(n) == UNION {[1..k -> DivKinds] : k \in 0..n}

\* authored children of the page-splitting inputs: divs, and at most one table
PageChildren ==
    DivSeqs(MaxChildren) \cup
    UNION {{InsertAt(s, p, t) : p \in 1..(Len(s) + 1), t \in PlainTables} :
            s \in DivSeqs(MaxChildren - 1)}

\* authored children of the table-splitting inputs: one table, with at most
\* one div above it and one below it
TableChildren ==
    {before \o <<t>> \o after :
        before \in {<<>>, <<Div(3, 0)>>, <<Div(6, 0)>>},
        t \in RichTables,
        after \in {<<>>, <<Div(3, 0)>>}}

HasCarry(kids) == \E k \in 1..Len(kids) : kids[k].carryColumn >= 0

NoSplit ==
    [rows |-> <<>>, table |-> Div(0, 0), headerRow |-> <<>>, currentTable |-> 0,
     carryLast |-> Nil, pageIndex |-> 0, pageBreak |-> FALSE, y |-> 0,
     innerHeight |-> 0, w |-> 0]

\* the authored page as Parse, initSizes and setPositions leave it
InputWith(kidSets, resets) ==
    /\ pc = "start"
    /\ \E kids \in kidSets, ih \in PageInnerHeights, gap \in PageGaps,
          reset \in resets :
        /\ page = [innerHeight |-> ih, gap |-> gap, reset |-> reset]
        /\ heap = kids
        /\ children = [k \in 1..Len(kids) |-> k]
        \* newRenderer (the XML entry point) passes a nil formatter; a caller
        \* of SetLayout may pass one
        /\ formatter \in (IF HasCarry(kids) THEN BOOLEAN ELSE {FALSE})
    /\ pages = <<>>
    /\ i = 1
    /\ currentY = 0
    /\ curPage = 0
    /\ st = NoSplit
    /\ num = NumIdle
    /\ lay = LayIdle

InitWith(kidSets, resets) ==
    /\ InputWith(kidSets, resets)
    /\ run = RunIdle

Init == InitWith(PageChildren, BOOLEAN)

TableInit == InitWith(TableChildren, {FALSE})

---------------------------------------------------------------------------
(* splitPage and its helpers (layout.go) *)

\* a re-flow that moves every widget, a declared y or not
RECURSIVE resetYAll(_, _, _, _)
resetYAll(h, ids, y, gap) ==
    IF ids = <<>> THEN h
    ELSE resetYAll([h EXCEPT ![Head(ids)].outerY = y], Tail(ids),
                   y + h[Head(ids)].outerH + gap, gap)

\* resetY: re-flow the widgets that declare no y from currentY
RECURSIVE resetY(_, _, _, _)
resetY(h, ids, y, gap) ==
    IF ids = <<>> THEN h
    ELSE LET id == Head(ids) IN
         IF h[id].Y = 0
         THEN resetY([h EXCEPT ![id].outerY = y], Tail(ids),
                     y + h[id].outerH + gap, gap)
         ELSE resetY(h, Tail(ids), y, gap)

\* copyPage: a fresh output page without children; ResetPageNumbers is
\* copied only when copyReset is set
copyPage(p, copyReset) ==
    [reset |-> IF copyReset THEN p.reset ELSE FALSE, kids |-> <<>>]

\* the children left in the order of the source
sortChildrenNot(h, sorted, rest) == sorted \o rest

\* sort.Slice(children, OuterY <): for slices of at most 12 elements Go's
\* sort is an insertion sort, which keeps the order of equal keys
RECURSIVE sortChildren(_, _, _)
sortChildren(h, sorted, rest) ==
    IF rest = <<>> THEN sorted
    ELSE LET id == Head(rest)
             n == Cardinality({k \in 1..Len(sorted) :
                                 h[sorted[k]].outerY <= h[id].outerY})
         IN sortChildren(h, InsertAt(sorted, n + 1, id), Tail(rest))

\* recalculateFromInnerHeight on a table (tables have no padding)
recalculateTableFromInnerHeight(w) == [w EXCEPT !.outerH = w.innerH + w.marginV]

\* setAlternateColor of the layouter: from row 1 on, the rows at an even
\* index get the colour where the background is nil, the rows at an odd
\* index lose their background
setAlternateColor(rows, alt) ==
    IF ~alt THEN rows
    ELSE [k \in 1..Len(rows) |->
            IF k - 1 < 1 THEN rows[k]
            ELSE IF (k - 1) % 2 = 0
            THEN [rows[k] EXCEPT !.cells =
                    [c \in 1..Len(@) |->
                        IF @[c].bg = "nil" THEN [@[c] EXCEPT !.bg = "alt"]
                        ELSE @[c]]]
            ELSE [rows[k] EXCEPT !.cells =
                    [c \in 1..Len(@) |-> [@[c] EXCEPT !.bg = "nil"]]]]

\* NumberFormatter.ParseNumber: the number a text holds, or an error
ParseNumber(text) == [err |-> ~text.isNum, value |-> text.v]

\* getColumnSum: the sum of the column over the rows; header cells, cells
\* that do not hold exactly one line, and everything when there is no
\* formatter, count for nothing
RECURSIVE getColumnSum(_, _, _)
getColumnSum(rows, column, fmt) ==
    IF rows = <<>> THEN 0
    ELSE LET cell == Head(rows).cells[column + 1]
             value == IF cell.isHeader THEN 0
                      ELSE IF cell.nlines = 1 /\ fmt /\ ~ParseNumber(cell.text).err
                      THEN ParseNumber(cell.text).value
                      ELSE 0
         IN value + getColumnSum(Tail(rows), column, fmt)

\* the rows-that-fit scan of splitTable: how many leading rows end at or
\* above innerHeight
RECURSIVE fitCount(_, _, _)
fitCount(rows, y, innerHeight) ==
    IF rows = <<>> THEN 0
    ELSE IF y + Head(rows).outerY + Head(rows).outerH > innerHeight THEN 0
    ELSE 1 + fitCount(Tail(rows), y, innerHeight)

\* resetRowsY: the table goes to y = 0 and its rows are stacked from 0
resetRowsY(w) == [w EXCEPT !.outerY = 0, !.rows = flowRows(w.rows, 0)]

\* "the last one doesn't carry because there is no next": clearCarryNext is
\* the code's assignment, clearCarryNextKept a return without it
clearCarryNextKept(w) == w
clearCarryNext(w) == [w EXCEPT !.carryNext = Nil]

\* deepCloneWidget copies every field splitTable reads
deepCloneWidget(w) == w

GapOf(p) == IF p.gap > 0 THEN p.gap ELSE 0

---------------------------------------------------------------------------
(* The actions of splitPages *)

PageBottom == page.innerHeight

\* splitPages takes the authored page; splitPage sorts its children
SplitPagesStart ==
    /\ pc = "start"
    /\ children' = sortChildren(heap, <<>>, children)
    /\ pc' = "loop"
    /\ UNCHANGED <<page, heap, pages, i, currentY, curPage, st, formatter, num, lay, run>>

\* the locals of splitTable before its loop (layout.go 344-367)
SplitTableEntry(h, w, y) ==
    [w |-> w,
     innerHeight |-> page.innerHeight - h[w].marginV,
     headerRow |-> IF h[w].hasColumns THEN <<deepCloneWidget(h[w].rows[1])>>
                   ELSE <<>>,
     rows |-> h[w].rows,
     table |-> deepCloneWidget([h[w] EXCEPT !.rows = <<>>]),
     currentTable |-> w,
     carryLast |-> Nil,
     pageIndex |-> 0,
     pageBreak |-> FALSE,
     y |-> y]

\* one pass of splitPage's loop over the children, up to the call of
\* splitTable when the child is a table that needs splitting
PlaceChild ==
    /\ pc = "loop"
    /\ i <= Len(children)
    /\ LET w == children[i]
           rest == Suffix(children, i - 1)
           fresh == curPage = 0 \/ currentY >= PageBottom
           y1 == IF fresh THEN 0 ELSE currentY
           pages1 == IF fresh THEN Append(pages, copyPage(page, TRUE)) ELSE pages
           cur1 == IF fresh THEN Len(pages1) ELSE curPage
           heap1 == IF fresh THEN resetY(heap, rest, 0, page.gap) ELSE heap
           bottom == y1 + heap1[w].outerH
           moved == /\ Len(pages1[cur1].kids) > 0
                    /\ heap1[w].type /= "table"
                    /\ bottom > PageBottom
           y2 == IF moved THEN 0 ELSE y1
           pages2 == IF moved THEN Append(pages1, copyPage(page, FALSE)) ELSE pages1
           cur2 == IF moved THEN Len(pages2) ELSE cur1
           heap2 == IF moved THEN resetY(heap1, rest, 0, page.gap) ELSE heap1
           pages3 == [pages2 EXCEPT ![cur2].kids = Append(@, w)]
           split == /\ heap2[w].type = "table"
                    /\ bottom + heap2[w].breakMargin > PageBottom
       IN /\ pages' = pages3
          /\ curPage' = cur2
          /\ IF split
             THEN /\ pc' = "table"
                  /\ st' = SplitTableEntry(heap2, w, y2)
                  /\ heap' = [heap2 EXCEPT ![w].rows = <<>>]
                  /\ currentY' = y2
                  /\ i' = i
             ELSE /\ pc' = "loop"
                  /\ st' = st
                  /\ heap' = heap2
                  /\ currentY' = y2 + heap2[w].outerH + GapOf(page)
                  /\ i' = i + 1
    /\ UNCHANGED <<page, children, formatter, num, lay, run>>

\* splitTable's return and the rest of splitPage's pass (layout.go 466,
\* 307-323): the last clone carries nothing on, currentY restarts from 0
ReturnFromSplit(h, s) ==
    LET h1 == [h EXCEPT ![s.currentTable] = clearCarryNext(@)]
        y == 0 + h1[s.currentTable].outerH + GapOf(page)
    IN /\ heap' = IF s.pageBreak
                  THEN resetY(h1, Suffix(children, i), y, page.gap)
                  ELSE h1
       /\ currentY' = y
       /\ i' = i + 1
       /\ pc' = "loop"
       /\ st' = NoSplit
       /\ UNCHANGED <<pages, curPage>>

\* one pass of splitTable's loop
SplitTableIter ==
    /\ pc = "table"
    /\ LET index == fitCount(st.rows, st.y, st.innerHeight)
           currentRows == setAlternateColor(Prefix(st.rows, index), st.table.alt)
           rest == Suffix(st.rows, index)
           carry == st.table.carryColumn >= 0
           sum == getColumnSum(currentRows, st.table.carryColumn, formatter)
           nextValue == (IF st.carryLast /= Nil THEN st.carryLast ELSE 0) + sum
           sized == recalculateTableFromInnerHeight(
                        [heap[st.currentTable] EXCEPT
                            !.pageNumber = st.pageIndex,
                            !.rows = currentRows,
                            !.innerH = SumHeights(currentRows)])
           done == IF carry
                   THEN [sized EXCEPT !.carryLast = st.carryLast,
                                      !.carryNext = nextValue]
                   ELSE sized
           heapA == [heap EXCEPT ![st.currentTable] = done]
           carryLast == IF carry THEN nextValue ELSE st.carryLast
           newRows == (IF st.headerRow /= <<>>
                       THEN <<[deepCloneWidget(st.headerRow[1]) EXCEPT !.copy = TRUE]>>
                       ELSE <<>>) \o rest
           clone == [resetRowsY(recalculateTableFromInnerHeight(
                        [deepCloneWidget(st.table) EXCEPT !.rows = newRows]))
                     EXCEPT !.pageNumber = st.pageIndex + 1, !.src = st.w]
           id == Len(heap) + 1
       IN IF index = 0
          THEN ReturnFromSplit(heap, st)
          ELSE IF rest = <<>>
          THEN ReturnFromSplit(heapA, [st EXCEPT !.carryLast = carryLast])
          ELSE /\ Len(pages) < MaxPages
               /\ heap' = Append(heapA, clone)
               /\ pages' = Append(pages, [copyPage(page, FALSE) EXCEPT !.kids = <<id>>])
               /\ curPage' = Len(pages) + 1
               /\ st' = [st EXCEPT !.rows = clone.rows,
                                   !.currentTable = id,
                                   !.carryLast = carryLast,
                                   !.pageIndex = st.pageIndex + 1,
                                   !.pageBreak = TRUE,
                                   !.y = 0]
               /\ UNCHANGED <<pc, i, currentY>>
    /\ UNCHANGED <<page, children, formatter, num, lay, run>>

\* splitPage returns and splitPages stores the pages in the document
SplitPagesFinish ==
    /\ pc = "loop"
    /\ i > Len(children)
    /\ pc' = "done"
    /\ UNCHANGED <<page, children, heap, pages, i, currentY, curPage, st, formatter,
                   num, lay, run>>

Next == SplitPagesStart \/ PlaceChild \/ SplitTableIter \/ SplitPagesFinish

Spec == Init /\ [][Next]_vars

TableSpec == TableInit /\ [][Next]_vars

---------------------------------------------------------------------------
(* Reading the output of splitPages *)

Done == pc = "done"

Placed == UNION {Range(pages[p].kids) : p \in 1..Len(pages)}

IsSourceTable(w) == heap[w].type = "table" /\ heap[w].src = 0

\* the clones splitTable made of source table w, in page order: w itself
\* (the first clone reuses it), then the copies in the order of their making
RECURSIVE ClonesFrom(_, _)
ClonesFrom(w, id) ==
    IF id > Len(heap) THEN <<>>
    ELSE (IF heap[id].src = w THEN <<id>> ELSE <<>>) \o ClonesFrom(w, id + 1)

Clones(w) == <<w>> \o ClonesFrom(w, 1)

\* the numbers the author wrote in the carry column of the non-header rows
RECURSIVE ColumnValues(_, _)
ColumnValues(rows, column) ==
    IF rows = <<>> THEN 0
    ELSE LET cell == Head(rows).cells[column + 1] IN
         (IF ~cell.isHeader /\ cell.text.isNum THEN cell.text.v ELSE 0)
            + ColumnValues(Tail(rows), column)

RECURSIVE SumOverClones(_, _)
SumOverClones(ids, column) ==
    IF ids = <<>> THEN 0
    ELSE ColumnValues(heap[Head(ids)].rows, column)
            + SumOverClones(Tail(ids), column)

Last(s) == s[Len(s)]

ValueOf(ptr) == IF ptr = Nil THEN 0 ELSE ptr

---------------------------------------------------------------------------
\* the children of output page p that do not lie within the inner height
Overflowing(p) ==
    {k \in 1..Len(pages[p].kids) :
        LET w == heap[pages[p].kids[k]] IN
        ~(w.outerY >= 0 /\ w.outerY + w.outerH <= page.innerHeight)}

(* C1: after pagination every placed child lies within the page's inner    *)
(* height (outerY >= 0 and outerY + outerHeight <= innerHeight), except    *)
(* for at most one table clone per page.                                   *)
ChildrenFitPage ==
    Done =>
        \A p \in 1..Len(pages) :
            /\ \A k \in Overflowing(p) : heap[pages[p].kids[k]].type = "table"
            /\ Cardinality(Overflowing(p)) <= 1

(* C2: the loop of splitTable terminates.  The loop is a deterministic     *)
(* function of the rows still to place and of the y it places them at, so  *)
(* it terminates exactly when no pass that goes on to another clone leaves *)
(* both as they were.                                                      *)
SplitTableTerminates ==
    [][(pc = "table" /\ pc' = "table") => <<st.rows, st.y>>' /= <<st.rows, st.y>>]_vars

(* C3: splitPages produces at least one output page for the authored page, *)
(* also when the page has no child widgets.                                *)
EveryPageHasOutput == Done => Len(pages) >= 1

(* C4: the clones T1..Tk of a table with a carry column chain their carry  *)
(* values: T1.carryLast is nil, T(j+1).carryLast = Tj.carryNext, and       *)
(* Tk.carryNext is nil.                                                    *)
CarryChain ==
    Done =>
        \A w \in 1..Len(heap) :
            (IsSourceTable(w) /\ heap[w].carryColumn >= 0) =>
                LET T == Clones(w) IN
                /\ heap[T[1]].carryLast = Nil
                /\ \A j \in 1..(Len(T) - 1) :
                        heap[T[j + 1]].carryLast = heap[T[j]].carryNext
                /\ heap[Last(T)].carryNext = Nil

\* a table with a carry column was split into three clones whose carry
\* values were read by a formatter
CarryChainWitness ==
    /\ Done
    /\ formatter
    /\ \E w \in 1..Len(heap) :
        /\ IsSourceTable(w) /\ heap[w].carryColumn >= 0
        /\ Len(Clones(w)) >= 3
        /\ heap[Clones(w)[2]].carryNext > 0
        /\ heap[Clones(w)[3]].carryLast = heap[Clones(w)[2]].carryNext

(* C5: for a split table with a carry column, the numbers in the carry     *)
(* column of the non-header rows of all clones add up to the final clone's *)
(* carryLast plus the final clone's own column sum, whether layout was     *)
(* started with a formatter or through the XML entry point (no formatter). *)
CarryTotal ==
    Done =>
        \A w \in 1..Len(heap) :
            (IsSourceTable(w) /\ heap[w].carryColumn >= 0) =>
                LET T == Clones(w)
                    col == heap[w].carryColumn
                IN SumOverClones(T, col)
                      = ValueOf(heap[Last(T)].carryLast)
                        + ColumnValues(heap[Last(T)].rows, col)

(* C6: in every table clone of the output, counting rows from 0: no cell   *)
(* of rows 1, 3, 5, ... has the alternate colour, and every cell of rows   *)
(* 2, 4, 6, ... whose background the author left unset has it.             *)
AlternateBanding ==
    Done =>
        \A w \in Placed :
            (heap[w].type = "table" /\ heap[w].alt) =>
                \A r \in 1..Len(heap[w].rows) : \A c \in 1..Len(heap[w].rows[r].cells) :
                    LET cell == heap[w].rows[r].cells[c] IN
                    /\ (r - 1) % 2 = 1 => cell.bg /= "alt"
                    /\ ((r - 1) >= 2 /\ (r - 1) % 2 = 0 /\ cell.declared = "nil")
                            => cell.bg = "alt"

(***************************************************************************)
(* Page numbers: setPageNumbers over the pages splitPages produced.  A    *)
(* text line is the sequence of its words; the placeholders are words.    *)
(***************************************************************************)
MaxDocPages == 3        \* pages of the document after splitting

NilWidget == [isNil |-> TRUE, hasLines |-> FALSE, ValueLines |-> <<>>, Children |-> <<>>]

\* a widget whose text was set (ValueLines non-nil) and its children
TextWidget(lines, kids) ==
    [isNil |-> FALSE, hasLines |-> TRUE, ValueLines |-> lines, Children |-> kids]

\* a widget without text of its own
BoxWidget(kids) ==
    [isNil |-> FALSE, hasLines |-> FALSE, ValueLines |-> <<>>, Children |-> kids]

PageOfPages == <<"Page", "{page}", "of", "{pages}">>
PageTwice == <<"{page}", "/", "{page}">>
Title == <<"Total">>

Headers ==
    { NilWidget,
      TextWidget(<<PageOfPages>>, <<>>),
      TextWidget(<<Title, PageTwice>>, <<>>),
      BoxWidget(<<TextWidget(<<PageOfPages>>, <<>>)>>),
      BoxWidget(<<BoxWidget(<<TextWidget(<<PageTwice>>, <<>>)>>),
                  TextWidget(<<Title>>, <<>>)>>),
      TextWidget(<<Title>>, <<TextWidget(<<PageOfPages>>, <<>>)>>) }

Footers ==
    { NilWidget,
      TextWidget(<<PageOfPages>>, <<>>),
      BoxWidget(<<TextWidget(<<PageTwice>>, <<>>)>>) }

\* fmt.Sprintf("%d", n)
Sprintf(n) == <<"1", "2", "3", "4", "5", "6", "7", "8", "9">>[n]

\* strings.ReplaceAll on a line
ReplaceAll(line, old, new) ==
    [k \in 1..Len(line) |-> IF line[k] = old THEN new ELSE line[k]]

RECURSIVE interpolatePageNumbers(_, _, _)
interpolatePageNumbers(w, current, total) ==
    IF w.hasLines
    THEN [w EXCEPT !.ValueLines =
            [k \in 1..Len(w.ValueLines) |->
                ReplaceAll(ReplaceAll(w.ValueLines[k], "{page}", current),
                           "{pages}", total)]]
    ELSE [w EXCEPT !.Children =
            [k \in 1..Len(w.Children) |->
                interpolatePageNumbers(w.Children[k], current, total)]]

DocPage(reset, hd, ft) == [ResetPageNumbers |-> reset, Header |-> hd, Footer |-> ft]

NumInit ==
    /\ \E n \in 1..MaxDocPages, hd \in Headers, ft \in Footers :
         \E resets \in [1..n -> BOOLEAN] :
            num = [pc |-> "group",
                   pages |-> [k \in 1..n |-> DocPage(resets[k], hd, ft)],
                   authored |-> DocPage(FALSE, hd, ft),
                   i |-> 0, groups |-> <<>>, currentGroup |-> <<>>,
                   g |-> 1, k |-> 0]
    /\ lay = LayIdle
    /\ run = RunIdle
    /\ pc = "idle"
    /\ page = [innerHeight |-> 0, gap |-> 0, reset |-> FALSE]
    /\ children = <<>>
    /\ heap = <<>>
    /\ pages = <<>>
    /\ i = 0
    /\ currentY = 0
    /\ curPage = 0
    /\ st = NoSplit
    /\ formatter = FALSE

PagVars == <<pc, page, children, heap, pages, i, currentY, curPage, st, formatter>>

\* one pass of the grouping loop; a group holds the indices of its pages
GroupPage ==
    /\ num.pc = "group"
    /\ num.i < Len(num.pages)
    /\ LET p == num.pages[num.i + 1]
           starts == p.ResetPageNumbers \/ num.i = 0
           closed == IF starts /\ num.i > 0 /\ Len(num.currentGroup) > 0
                     THEN Append(num.groups, num.currentGroup)
                     ELSE num.groups
           cur == IF starts THEN <<>> ELSE num.currentGroup
       IN  num' = [num EXCEPT !.groups = closed,
                              !.currentGroup = Append(cur, num.i + 1),
                              !.i = num.i + 1]
    /\ UNCHANGED <<PagVars, lay, run>>

\* "Add the last group"
CloseLastGroup ==
    /\ num.pc = "group"
    /\ num.i = Len(num.pages)
    /\ num' = [num EXCEPT !.groups = IF Len(num.currentGroup) > 0
                                     THEN Append(num.groups, num.currentGroup)
                                     ELSE num.groups,
                          !.pc = "interpolate"]
    /\ UNCHANGED <<PagVars, lay, run>>

\* one page of one group: its header and its footer
InterpolatePage ==
    /\ num.pc = "interpolate"
    /\ num.g <= Len(num.groups)
    /\ LET group == num.groups[num.g]
           idx == group[num.k + 1]
           p == num.pages[idx]
           current == Sprintf(num.k + 1)
           total == Sprintf(Len(group))
           hd == IF ~p.Header.isNil
                 THEN interpolatePageNumbers(p.Header, current, total)
                 ELSE p.Header
           ft == IF ~p.Footer.isNil
                 THEN interpolatePageNumbers(p.Footer, current, total)
                 ELSE p.Footer
           lastOfGroup == num.k + 1 = Len(group)
       IN  num' = [num EXCEPT !.pages[idx] = [p EXCEPT !.Header = hd, !.Footer = ft],
                              !.k = IF lastOfGroup THEN 0 ELSE num.k + 1,
                              !.g = IF lastOfGroup THEN num.g + 1 ELSE num.g]
    /\ UNCHANGED <<PagVars, lay, run>>

SetPageNumbersReturn ==
    /\ num.pc = "interpolate"
    /\ num.g > Len(num.groups)
    /\ num' = [num EXCEPT !.pc = "done"]
    /\ UNCHANGED <<PagVars, lay, run>>

NumNext == GroupPage \/ CloseLastGroup \/ InterpolatePage \/ SetPageNumbersReturn

NumSpec == NumInit /\ [][NumNext]_vars

(***************************************************************************)
(* What the numbering is expected to be, stated on the pages alone.       *)
(***************************************************************************)
\* the page that opens the group of page k: the nearest page at or before k
\* that is the first page or has ResetPageNumbers
GroupStart(ps, k) ==
    CHOOSE j \in 1..k :
        /\ j = 1 \/ ps[j].ResetPageNumbers
        /\ \A m \in (j + 1)..k : ~ps[m].ResetPageNumbers

GroupEnd(ps, k) ==
    CHOOSE j \in k..Len(ps) :
        /\ j = Len(ps) \/ ps[j + 1].ResetPageNumbers
        /\ \A m \in (k + 1)..j : ~ps[m].ResetPageNumbers

\* both placeholders replaced in every line of every widget of a subtree
RECURSIVE Numbered(_, _, _)
Numbered(w, current, total) ==
    [w EXCEPT !.ValueLines =
        [k \in 1..Len(w.ValueLines) |->
            ReplaceAll(ReplaceAll(w.ValueLines[k], "{page}", current),
                       "{pages}", total)],
              !.Children =
        [k \in 1..Len(w.Children) |-> Numbered(w.Children[k], current, total)]]

\* C7: the pages form groups that open at the first page and at every page
\* with ResetPageNumbers; in a group of N pages the i-th page's header and
\* footer have {page} replaced by i and {pages} by N in every line of every
\* widget of their subtrees
PageNumbersInterpolated ==
    num.pc = "done" =>
        \A k \in 1..Len(num.pages) :
            LET s == GroupStart(num.pages, k)
                e == GroupEnd(num.pages, k)
                current == Sprintf(k - s + 1)
                total == Sprintf(e - s + 1)
            IN  /\ num.pages[k].Header = Numbered(num.authored.Header, current, total)
                /\ num.pages[k].Footer = Numbered(num.authored.Footer, current, total)

(***************************************************************************)
(* Sizes: initCalculatedInfo and the four passes of initWidgetSize over   *)
(* one child of a page.  Font sizes, line heights and vertical lengths    *)
(* are counted in units of 0.7pt and horizontal lengths in units of       *)
(* 0.45 * 0.7pt, so that a character is as wide as its font size; a       *)
(* string is the sequence of the lengths of its words, single-spaced.     *)
(***************************************************************************)
MaxKids == 2            \* children of the widget that is laid out

LibFontSize == 11       \* PdfLibDoc.FontSize, 7.7pt
DocFontSize == 20       \* the document's default fontSize, 14pt

NoBox == [nil |-> TRUE, Top |-> 0, Right |-> 0, Bottom |-> 0, Left |-> 0]
Box(n) == [nil |-> FALSE, Top |-> n, Right |-> n, Bottom |-> n, Left |-> n]

PageInnerWidths == {288, 720}
\* the margin and the padding of a leaf: none, a margin, or a padding
BoxPairs == {<<NoBox, NoBox>>, <<Box(72), NoBox>>, <<NoBox, Box(72)>>}
Widths == {0, 72}       \* 0: no width attribute
ContainerWidths == {0, 288}
Gaps == {0, 72}

Max(a, b) == IF a > b THEN a ELSE b
Min(a, b) == IF a < b THEN a ELSE b

\* len(text) of a string of the given words
RECURSIVE StrLen(_)
StrLen(words) ==
    IF words = <<>> THEN 0
    ELSE Head(words) + (IF Len(words) > 1 THEN 1 ELSE 0) + StrLen(Tail(words))

\* PdfLibDoc.MeasureTextWidth with the font size the library holds
MeasureTextWidth(text, fontSize) ==
    IF StrLen(text) = 0 THEN 0 ELSE StrLen(text) * fontSize

\* Layouter.measureTextWidth: sets the font size for the one measurement
measureTextWidth(fontSize, text) == MeasureTextWidth(text, fontSize)

NoText == <<>>
Texts == { NoText, <<<<3, 2>>>>, <<<<12>>>> }

\* a font family is its name in parts, so that a suffix can be told: "roboto"
\* is <<"roboto">>, "robotoBold" is <<"roboto", "Bold">>, "" is <<>>
NoFamily == <<>>
Roboto == <<"roboto">>
RobotoBold == <<"roboto", "Bold">>

NoColor == ""

ZeroCalculated ==
    [Width |-> 0, Height |-> 0, InnerWidth |-> 0, InnerHeight |-> 0,
     OuterWidth |-> 0, OuterHeight |-> 0, FontSize |-> 0, LineHeight |-> 0,
     Direction |-> "", FontFamily |-> NoFamily, Color |-> NoColor, Bold |-> FALSE,
     X |-> 0, Y |-> 0, InnerX |-> 0, InnerY |-> 0, OuterX |-> 0, OuterY |-> 0]

\* parseWidget and parseDiv: Value is the text, ValueLines its lines
Widget(width, margin, padding, gap, direction, text, kids) ==
    [type |-> "div", Width |-> width, Height |-> 0,
     Margin |-> margin, Padding |-> padding, Gap |-> gap,
     Direction |-> direction, FontSize |-> 0, LineHeight |-> 0, Wrap |-> FALSE,
     FontFamily |-> NoFamily, Color |-> NoColor, Bold |-> FALSE,
     X |-> 0, Y |-> 0, Align |-> "",
     CarryHeader |-> <<>>, CarryFooter |-> <<>>,
     Value |-> text, hasLines |-> text /= NoText, ValueLines |-> text,
     Children |-> kids, Calculated |-> ZeroCalculated]

Leaf(width, box, text) == Widget(width, box[1], box[2], 0, "", text, <<>>)

Leaves == {Leaf(width, box, text) :
             width \in Widths, box \in BoxPairs, text \in Texts}

Containers ==
    {Widget(width, NoBox, NoBox, 0, dir, NoText, <<kid>>) :
        width \in ContainerWidths, dir \in {"", "row"},
        kid \in {Leaf(0, <<Box(72), NoBox>>, NoText),
                 Leaf(0, <<NoBox, NoBox>>, <<<<3, 2>>>>)}}
    \cup {[Widget(0, NoBox, NoBox, 0, "", NoText,
                   <<Leaf(0, <<NoBox, NoBox>>, <<<<3, 2>>>>)>>) EXCEPT !.Height = h] :
            h \in {10, 144}}

Roots ==
    {Widget(0, NoBox, NoBox, gap, dir, NoText, kids) :
        gap \in Gaps, dir \in {"", "row"},
        kids \in UNION {[1..n -> Leaves \cup Containers] : n \in 1..MaxKids}}

\* the page the widget is a child of, after initCalculatedInfo
PageCalculated ==
    [ZeroCalculated EXCEPT !.FontSize = DocFontSize, !.LineHeight = DocFontSize,
                           !.Direction = "column", !.FontFamily = Roboto,
                           !.Color = "#222"]

(***************************************************************************)
(* The size helpers of layout.go, on a widget and its Calculated record.  *)
(***************************************************************************)
addjustCalculatedWidth(w) ==
    LET width == IF w.Calculated.Width = 0 THEN w.Width ELSE w.Calculated.Width
        inner == IF w.Padding.nil THEN width
                 ELSE Max(0, width - (w.Padding.Left + w.Padding.Right))
        outer == IF w.Margin.nil THEN width
                 ELSE width + (w.Margin.Left + w.Margin.Right)
    IN  [w EXCEPT !.Calculated.Width = width,
                  !.Calculated.InnerWidth = inner,
                  !.Calculated.OuterWidth = outer]

addjustCalculatedHeight(w) ==
    LET height == IF w.Calculated.Height = 0 THEN w.Height ELSE w.Calculated.Height
        inner == IF w.Padding.nil THEN height
                 ELSE Max(0, height - (w.Padding.Top + w.Padding.Bottom))
        outer == IF w.Margin.nil THEN height
                 ELSE height + (w.Margin.Top + w.Margin.Bottom)
    IN  [w EXCEPT !.Calculated.Height = height,
                  !.Calculated.InnerHeight = inner,
                  !.Calculated.OuterHeight = outer]

recalculateFromInnerHeight(w) ==
    LET height == IF w.Padding.nil THEN w.Calculated.InnerHeight
                  ELSE w.Calculated.InnerHeight + (w.Padding.Top + w.Padding.Bottom)
        outer == IF w.Margin.nil THEN height
                 ELSE height + (w.Margin.Top + w.Margin.Bottom)
    IN  [w EXCEPT !.Calculated.Height = height, !.Calculated.OuterHeight = outer]

recalculateFromOuterHeight(w) ==
    LET height == IF w.Margin.nil THEN w.Calculated.OuterHeight
                  ELSE w.Calculated.OuterHeight - (w.Margin.Top + w.Margin.Bottom)
        inner == IF w.Padding.nil THEN height
                 ELSE Max(0, height - (w.Padding.Top + w.Padding.Bottom))
    IN  [w EXCEPT !.Calculated.Height = height, !.Calculated.InnerHeight = inner]

recalculateFromOuterWidth(w) ==
    LET width == IF w.Margin.nil THEN w.Calculated.OuterWidth
                 ELSE w.Calculated.OuterWidth - (w.Margin.Left + w.Margin.Right)
        inner == IF w.Padding.nil THEN width
                 ELSE Max(0, width - (w.Padding.Left + w.Padding.Right))
    IN  [w EXCEPT !.Calculated.Width = width, !.Calculated.InnerWidth = inner]

getHeightFromInnerHeight(w, innerHeight) ==
    innerHeight
    + (IF w.Padding.nil THEN 0 ELSE w.Padding.Top + w.Padding.Bottom)
    + (IF w.Margin.nil THEN 0 ELSE w.Margin.Top + w.Margin.Bottom)

\* strings.HasSuffix on a family and a name part
HasSuffixNever(family, suffix) == FALSE
HasSuffix(family, suffix) == Len(family) > 0 /\ family[Len(family)] = suffix

\* the style and the declared sizes of w, with parent's Calculated record;
\* a nil parent gives what a parent with a zero Calculated record gives
RECURSIVE initCalculatedInfo(_, _)
initCalculatedInfo(w, parent) ==
    LET bold == w.Bold \/ parent.Bold
        family == IF w.FontFamily /= NoFamily THEN w.FontFamily ELSE parent.FontFamily
        c0 == [ZeroCalculated EXCEPT
                 !.FontFamily = IF bold /\ ~HasSuffix(family, "Bold")
                                THEN Append(family, "Bold") ELSE family,
                 !.FontSize = IF w.FontSize /= 0 THEN w.FontSize ELSE parent.FontSize,
                 !.LineHeight = IF w.LineHeight /= 0 THEN w.LineHeight
                                ELSE parent.LineHeight,
                 !.Color = IF w.Color /= NoColor THEN w.Color ELSE parent.Color,
                 !.Bold = bold]
        w0 == [w EXCEPT !.Calculated = c0]
        w1 == IF w.Width /= 0
              THEN addjustCalculatedWidth([w0 EXCEPT !.Calculated.Width = w.Width])
              ELSE w0
        w2 == IF w.Height /= 0
              THEN addjustCalculatedHeight([w1 EXCEPT !.Calculated.Height = w.Height])
              ELSE w1
        w3 == [w2 EXCEPT !.Calculated.Direction =
                            IF w.Direction = "" THEN "column" ELSE w.Direction]
    IN  [w3 EXCEPT !.Children =
            [k \in 1..Len(w.Children) |-> initCalculatedInfo(w.Children[k], w3.Calculated)]]

\* the widest line, measured with the library's font size
RECURSIVE MaxLineWidth(_)
MaxLineWidth(lines) ==
    IF lines = <<>> THEN 0
    ELSE Max(MeasureTextWidth(Head(lines), LibFontSize), MaxLineWidth(Tail(lines)))

initValueSize(w) ==
    LET w1 == [w EXCEPT !.Calculated.Width =
                  IF w.Width = 0 THEN MaxLineWidth(w.ValueLines) ELSE w.Width]
        w2 == IF w1.Calculated.InnerHeight = 0
              THEN [w1 EXCEPT !.Calculated.InnerHeight =
                                  Len(w.ValueLines) * w.Calculated.LineHeight]
              ELSE w1
    IN  recalculateFromInnerHeight(addjustCalculatedWidth(w2))

\* a table's carry header and carry footer get their style and their text
\* size here, with the table as the parent
RECURSIVE initFixedSizes(_)
initFixedSizes(w) ==
    LET carry(c) == [k \in 1..Len(c) |->
                        initValueSize(initCalculatedInfo(c[k], w.Calculated))]
        w1 == IF w.type = "table"
              THEN [w EXCEPT !.CarryHeader = carry(@), !.CarryFooter = carry(@)]
              ELSE IF w.hasLines THEN initValueSize(w) ELSE w
    IN  [w1 EXCEPT !.Children =
            [k \in 1..Len(w.Children) |-> initFixedSizes(w.Children[k])]]

RECURSIVE SumOuterWidth(_)
SumOuterWidth(kids) ==
    IF kids = <<>> THEN 0
    ELSE Head(kids).Calculated.OuterWidth + SumOuterWidth(Tail(kids))

SelectKids(kids, fixed) ==
    SelectSeq(kids, LAMBDA c : (c.Width /= 0) = fixed)

RECURSIVE initWidgetsWidth(_, _)
RECURSIVE reflowTexts(_)

\* getOuterWidth: what the children of w take, or w's own outer width
RECURSIVE getOuterWidth(_)
getOuterWidth(w) ==
    LET n == Len(w.Children)
        outer == [k \in 1..n |-> getOuterWidth(w.Children[k])]
        Sum[k \in 0..n] == IF k = 0 THEN 0 ELSE Sum[k - 1] + outer[k]
        Most[k \in 0..n] == IF k = 0 THEN 0 ELSE Max(Most[k - 1], outer[k])
    IN  IF n = 0 THEN w.Calculated.OuterWidth
        ELSE IF w.Calculated.Direction = "row"
        THEN Sum[n] + (IF w.Gap > 0 THEN (n - 1) * w.Gap ELSE 0)
        ELSE Most[n]

\* the align of a cell goes to the items in it
copyAlign(cell) ==
    IF cell.Align /= ""
    THEN [cell EXCEPT !.Children =
            [k \in 1..Len(cell.Children) |->
                [cell.Children[k] EXCEPT !.Align = cell.Align]]]
    ELSE cell

\* adjustColumns on a table whose rows all have the cells of the first: the
\* widest cell of a column is its size, and the sizes are scaled to the
\* table's inner width unless they already sum to it (the tables here have
\* a column of positive size, so that the ratio is a number)
adjustColumns(table) ==
    LET rows == table.Children
        columnCount == Len(rows[1].Children)
        size(cell) == IF cell.Width /= 0 THEN cell.Width ELSE getOuterWidth(cell)
        Widest[c \in 1..columnCount] ==
            LET Upto[r \in 0..Len(rows)] ==
                    IF r = 0 THEN 0 ELSE Max(Upto[r - 1], size(rows[r].Children[c]))
            IN  Upto[Len(rows)]
        Total[c \in 0..columnCount] == IF c = 0 THEN 0 ELSE Total[c - 1] + Widest[c]
        totalWidth == Total[columnCount]
        tableWidth == table.Calculated.InnerWidth
        columnSize(c) == (Widest[c] * tableWidth) \div totalWidth
        adjustCell(cell, c) ==
            copyAlign(reflowTexts(recalculateFromOuterWidth(
                [cell EXCEPT !.Calculated.OuterWidth = columnSize(c)])))
    IN  IF Len(rows) = 0 \/ tableWidth = totalWidth THEN table
        ELSE [table EXCEPT !.Children =
                [r \in 1..Len(rows) |->
                    [rows[r] EXCEPT !.Children =
                        [c \in 1..Len(rows[r].Children) |->
                            IF c <= columnCount
                            THEN adjustCell(rows[r].Children[c], c)
                            ELSE rows[r].Children[c]]]]]

initWidgetsWidth(w, parentWidth) ==
    LET w1 == IF w.Width = 0 \/ w.Calculated.OuterWidth > parentWidth
              THEN recalculateFromOuterWidth(
                       [w EXCEPT !.Calculated.OuterWidth = parentWidth])
              ELSE addjustCalculatedWidth(w)
        innerWidth == w1.Calculated.InnerWidth
        n == Len(w.Children)
        gap == w.Gap * (n - 1)
        sumWidth == SumOuterWidth(w.Children) + (IF gap > 0 THEN gap ELSE 0)
        fixedItems == SelectKids(w.Children, TRUE)
        autoItems == SelectKids(w.Children, FALSE)
        shared == (innerWidth - SumOuterWidth(fixedItems) - gap) \div Len(autoItems)
        equal == (innerWidth - gap) \div n
        w2 == IF w.Direction = "row"
              THEN IF sumWidth < innerWidth
                   THEN IF Len(autoItems) > 0
                        THEN [w1 EXCEPT !.Children =
                                [k \in 1..n |->
                                    IF w.Children[k].Width = 0
                                    THEN initWidgetsWidth(w.Children[k], shared)
                                    ELSE w.Children[k]]]
                        ELSE w1
                   ELSE [w1 EXCEPT !.Children =
                           [k \in 1..n |-> initWidgetsWidth(w.Children[k], equal)]]
              ELSE [w1 EXCEPT !.Children =
                      [k \in 1..n |-> initWidgetsWidth(w.Children[k], innerWidth)]]
    IN  IF n = 0 THEN w1
        ELSE IF w.type = "table" THEN adjustColumns(w2)
        ELSE w2

\* a word wider than the line, cut into parts of at most per characters
RECURSIVE splitWord(_, _)
splitWord(remaining, per) ==
    IF remaining = 0 THEN <<>>
    ELSE <<<<Min(remaining, per)>>>> \o splitWord(remaining - Min(remaining, per), per)

Flush(line) == IF Len(line) > 0 THEN <<line>> ELSE <<>>

\* the words of one line of the text, with the line being filled
RECURSIVE splitWords(_, _, _, _, _)
splitWords(words, line, lineWidth, fontSize, availableWidth) ==
    IF words = <<>> THEN Flush(line)
    ELSE LET word == Head(words)
             wordWidth == measureTextWidth(fontSize, <<word>>)
             charWidth == measureTextWidth(fontSize, <<1>>)
             spaceWidth == measureTextWidth(fontSize, <<1>>)
         IN  IF wordWidth > availableWidth
             THEN Flush(line)
                  \o splitWord(word, Max(1, availableWidth \div charWidth))
                  \o splitWords(Tail(words), <<>>, 0, fontSize, availableWidth)
             ELSE IF lineWidth + wordWidth > availableWidth
             THEN Flush(line)
                  \o splitWords(Tail(words), <<word>>, wordWidth, fontSize, availableWidth)
             ELSE splitWords(Tail(words), Append(line, word),
                             lineWidth + wordWidth + spaceWidth, fontSize, availableWidth)

RECURSIVE splitLines(_, _, _)
splitLines(text, fontSize, availableWidth) ==
    IF text = <<>> THEN <<>>
    ELSE splitWords(Head(text), <<>>, 0, fontSize, availableWidth)
         \o splitLines(Tail(text), fontSize, availableWidth)

wrapText(w) ==
    LET buf == IF w.Value /= NoText
               THEN splitLines(w.Value, w.Calculated.FontSize, w.Calculated.InnerWidth)
               ELSE <<>>
        lines == IF w.Wrap /\ Len(buf) > 0 THEN SubSeq(buf, 1, 1) ELSE buf
        w1 == [w EXCEPT !.ValueLines = lines, !.hasLines = TRUE]
    IN  IF w.Height = 0
        THEN recalculateFromInnerHeight(
                 [w1 EXCEPT !.Calculated.InnerHeight =
                               Len(lines) * w.Calculated.LineHeight])
        ELSE w1

reflowTexts(w) ==
    IF Len(w.ValueLines) > 0 THEN wrapText(w)
    ELSE [w EXCEPT !.Children =
            [k \in 1..Len(w.Children) |-> reflowTexts(w.Children[k])]]

RECURSIVE SumGetHeight(_)
RECURSIVE MaxGetHeight(_)
RECURSIVE getHeight(_)
getHeight(w) ==
    IF Len(w.Children) = 0 THEN w.Calculated.OuterHeight
    ELSE IF w.Calculated.Direction = "column"
    THEN getHeightFromInnerHeight(w,
             SumGetHeight(w.Children)
             + (IF w.Gap > 0 THEN w.Gap * (Len(w.Children) - 1) ELSE 0))
    ELSE getHeightFromInnerHeight(w, MaxGetHeight(w.Children))

SumGetHeight(kids) ==
    IF kids = <<>> THEN 0 ELSE getHeight(Head(kids)) + SumGetHeight(Tail(kids))

MaxGetHeight(kids) ==
    IF kids = <<>> THEN 0 ELSE Max(getHeight(Head(kids)), MaxGetHeight(Tail(kids)))

\* the inner height the children of w need
getItemsInnerHeight(w) ==
    LET inner == [k \in 1..Len(w.Children) |-> w.Children[k].Calculated.InnerHeight]
        Sum[k \in 0..Len(inner)] == IF k = 0 THEN 0 ELSE Sum[k - 1] + inner[k]
        Most[k \in 0..Len(inner)] == IF k = 0 THEN 0 ELSE Max(Most[k - 1], inner[k])
    IN  IF w.Calculated.Direction = "column"
        THEN Sum[Len(inner)]
             + (IF w.Gap > 0 THEN w.Gap * (Len(w.Children) - 1) ELSE 0)
        ELSE Most[Len(inner)]

\* the cells of a row get the height of the tallest, the row the height of
\* its cells, the table the height of its rows
adjustRowsHeight(table) ==
    LET adjustRow(row) ==
            LET maxCellHeight == getItemsInnerHeight(row)
                cells == [k \in 1..Len(row.Children) |->
                            recalculateFromInnerHeight(
                                [row.Children[k] EXCEPT
                                    !.Calculated.InnerHeight = maxCellHeight])]
                Most[k \in 0..Len(cells)] ==
                    IF k = 0 THEN 0
                    ELSE Max(Most[k - 1], cells[k].Calculated.OuterHeight)
            IN  recalculateFromInnerHeight(
                    [row EXCEPT !.Children = cells,
                                !.Calculated.InnerHeight = Most[Len(cells)]])
        rows == [k \in 1..Len(table.Children) |-> adjustRow(table.Children[k])]
        Sum[k \in 0..Len(rows)] ==
            IF k = 0 THEN 0 ELSE Sum[k - 1] + rows[k].Calculated.InnerHeight
    IN  recalculateFromInnerHeight(
            [table EXCEPT !.Children = rows,
                          !.Calculated.InnerHeight = Sum[Len(rows)]])

RECURSIVE initWidgetsHeight(_)
initWidgetsHeight(w) ==
    LET w1 == [w EXCEPT !.Children =
                 [k \in 1..Len(w.Children) |-> initWidgetsHeight(w.Children[k])]]
        w2 == IF w.Height = 0
              THEN recalculateFromOuterHeight(
                       [w1 EXCEPT !.Calculated.OuterHeight = getHeight(w1)])
              ELSE addjustCalculatedHeight(w1)
    IN  IF w.type = "table" THEN adjustRowsHeight(w2) ELSE w2

(***************************************************************************)
(* initSizes on a page with one child: the style pass, then the passes of *)
(* initWidgetSize in the order of the code.                               *)
(***************************************************************************)
LayInit ==
    /\ \E root \in Roots, width \in PageInnerWidths :
          lay = [pc |-> "parsed", innerWidth |-> width, w |-> root]
    /\ num = NumIdle
    /\ run = RunIdle
    /\ pc = "idle"
    /\ page = [innerHeight |-> 0, gap |-> 0, reset |-> FALSE]
    /\ children = <<>>
    /\ heap = <<>>
    /\ pages = <<>>
    /\ i = 0
    /\ currentY = 0
    /\ curPage = 0
    /\ st = NoSplit
    /\ formatter = FALSE

InitCalculatedInfo ==
    /\ lay.pc = "parsed"
    /\ lay' = [lay EXCEPT !.pc = "styled", !.w = initCalculatedInfo(lay.w, PageCalculated)]
    /\ UNCHANGED <<PagVars, num, run>>

InitFixedSizes ==
    /\ lay.pc = "styled"
    /\ lay' = [lay EXCEPT !.pc = "fixed", !.w = initFixedSizes(lay.w)]
    /\ UNCHANGED <<PagVars, num, run>>

InitWidgetsWidth ==
    /\ lay.pc = "fixed"
    /\ lay' = [lay EXCEPT !.pc = "width", !.w = initWidgetsWidth(lay.w, lay.innerWidth)]
    /\ UNCHANGED <<PagVars, num, run>>

ReflowTexts ==
    /\ lay.pc = "width"
    /\ lay' = [lay EXCEPT !.pc = "text", !.w = reflowTexts(lay.w)]
    /\ UNCHANGED <<PagVars, num, run>>

InitWidgetsHeight ==
    /\ lay.pc = "text"
    /\ lay' = [lay EXCEPT !.pc = "sized", !.w = initWidgetsHeight(lay.w)]
    /\ UNCHANGED <<PagVars, num, run>>

LayNext ==
    \/ InitCalculatedInfo
    \/ InitFixedSizes
    \/ InitWidgetsWidth
    \/ ReflowTexts
    \/ InitWidgetsHeight

LaySpec == LayInit /\ [][LayNext]_vars

(***************************************************************************)
(* The sizes after layout.                                                 *)
(***************************************************************************)
RECURSIVE Widgets(_)
Widgets(w) == {w} \cup UNION {Widgets(w.Children[k]) : k \in 1..Len(w.Children)}

Sized == lay.pc = "sized"

HSum(box) == IF box.nil THEN 0 ELSE box.Left + box.Right
VSum(box) == IF box.nil THEN 0 ELSE box.Top + box.Bottom

\* C8: after layout every widget has outer = border + margin and
\* border = inner + padding, in width and in height
BoxModelHolds ==
    Sized =>
        \A w \in Widgets(lay.w) :
            /\ w.Calculated.OuterWidth = w.Calculated.Width + HSum(w.Margin)
            /\ w.Calculated.Width = w.Calculated.InnerWidth + HSum(w.Padding)
            /\ w.Calculated.OuterHeight = w.Calculated.Height + VSum(w.Margin)
            /\ w.Calculated.Height = w.Calculated.InnerHeight + VSum(w.Padding)

\* C9: after layout the inner, border and outer width and height of every
\* widget are at least zero
SizesNonNegative ==
    Sized =>
        \A w \in Widgets(lay.w) :
            /\ w.Calculated.InnerWidth >= 0 /\ w.Calculated.InnerHeight >= 0
            /\ w.Calculated.Width >= 0 /\ w.Calculated.Height >= 0
            /\ w.Calculated.OuterWidth >= 0 /\ w.Calculated.OuterHeight >= 0

\* C10: in a row container the outer widths of the children plus the gaps
\* between them are at most the container's inner width, and equal to it
\* when some child has no declared width
RowWidthsFit ==
    Sized =>
        \A w \in Widgets(lay.w) :
            (w.Direction = "row" /\ Len(w.Children) > 0) =>
                LET used == SumOuterWidth(w.Children) + w.Gap * (Len(w.Children) - 1)
                IN  /\ used <= w.Calculated.InnerWidth
                    /\ (\E k \in 1..Len(w.Children) : w.Children[k].Width = 0)
                          => used = w.Calculated.InnerWidth

RECURSIVE SumOuterHeight(_)
SumOuterHeight(kids) ==
    IF kids = <<>> THEN 0
    ELSE Head(kids).Calculated.OuterHeight + SumOuterHeight(Tail(kids))

\* C21: a column container with no declared height has as inner height the
\* sum of its children's outer heights plus the gaps between them, also
\* when a child with children of its own declares a height
ColumnHeightIsSum ==
    Sized =>
        \A w \in Widgets(lay.w) :
            (w.Calculated.Direction = "column" /\ w.Height = 0 /\ Len(w.Children) > 0) =>
                w.Calculated.InnerHeight =
                    SumOuterHeight(w.Children) + w.Gap * (Len(w.Children) - 1)

\* the width pass is about to run on a row whose children, with the gaps
\* between them, are at least as wide as the row's inner width
RowIsFull ==
    /\ lay.pc = "fixed"
    /\ lay.w.Direction = "row"
    /\ LET gap == lay.w.Gap * (Len(lay.w.Children) - 1)
       IN  SumOuterWidth(lay.w.Children) + (IF gap > 0 THEN gap ELSE 0) >= lay.innerWidth

\* C22: in a row whose children's widths plus gaps meet or exceed its inner
\* width, every child, with a declared width or not, ends with the outer
\* width (innerWidth - gap x (n - 1)) / n
RowSharedEqually ==
    [][RowIsFull =>
         \A k \in 1..Len(lay.w.Children) :
            lay'.w.Children[k].Calculated.OuterWidth =
               (lay.innerWidth - lay.w.Gap * (Len(lay.w.Children) - 1))
                  \div Len(lay.w.Children)]_vars

(***************************************************************************)
(* wrapText on one text widget, with splitLines followed loop by loop.    *)
(***************************************************************************)
MaxWords == 3           \* words of a line of text

WordLengths == {1, 2, 7}
WrapWidths == {0, 30, 60, 72}   \* the widget's inner width
FontSizes == {LibFontSize, DocFontSize}

TextLines == UNION {[1..n -> WordLengths] : n \in 1..MaxWords}

\* one line of text, or the line and a second one
WrapTexts == {<<l>> : l \in TextLines} \cup {<<l, <<2>>>> : l \in TextLines}

\* a text widget after the width pass; bare text inside a page has value
\* lines and no Value (parseToken)
TextWidgetSized(text, bare, wrap, fontSize, innerWidth) ==
    [Widget(0, NoBox, NoBox, 0, "", text, <<>>) EXCEPT
        !.Value = IF bare THEN NoText ELSE text,
        !.Wrap = wrap,
        !.Calculated = [ZeroCalculated EXCEPT
                           !.FontSize = fontSize, !.LineHeight = fontSize,
                           !.Direction = "column",
                           !.Width = innerWidth, !.OuterWidth = innerWidth,
                           !.InnerWidth = innerWidth]]

IdlePassive ==
    /\ num = NumIdle
    /\ lay = LayIdle
    /\ pc = "idle"
    /\ page = [innerHeight |-> 0, gap |-> 0, reset |-> FALSE]
    /\ children = <<>>
    /\ heap = <<>>
    /\ pages = <<>>
    /\ i = 0
    /\ currentY = 0
    /\ curPage = 0
    /\ st = NoSplit
    /\ formatter = FALSE

WrapInit ==
    /\ \E text \in WrapTexts, bare \in BOOLEAN, wrap \in BOOLEAN,
          fontSize \in FontSizes, innerWidth \in WrapWidths :
          run = [pc |-> "wrapText",
                 w |-> TextWidgetSized(text, bare, wrap, fontSize, innerWidth),
                 text |-> <<>>, words |-> <<>>, line |-> <<>>, lineWidth |-> 0,
                 lines |-> <<>>, remainingWord |-> 0]
    /\ IdlePassive

Others == <<PagVars, num, lay>>

\* wrapText: splitLines is called when the widget has a Value
WrapTextStart ==
    /\ run.pc = "wrapText"
    /\ run' = IF run.w.Value /= NoText
              THEN [run EXCEPT !.pc = "textLines", !.text = run.w.Value]
              ELSE [run EXCEPT !.pc = "buf"]
    /\ UNCHANGED Others

\* the loop over the lines of the text: the next line's words
NextTextLine ==
    /\ run.pc = "textLines"
    /\ run.text /= <<>>
    /\ run' = [run EXCEPT !.pc = "words", !.words = Head(run.text),
                          !.text = Tail(run.text), !.line = <<>>, !.lineWidth = 0]
    /\ UNCHANGED Others

\* the characters one pass of the long-word loop takes from the word: those
\* that fit, the first one always
longWordPartUnforced(remaining, charWidth, availableWidth) ==
    Min(remaining, availableWidth \div charWidth)
longWordPart(remaining, charWidth, availableWidth) ==
    LET fits == {k \in 1..remaining : k = 1 \/ k * charWidth <= availableWidth}
    IN  CHOOSE k \in fits : \A m \in fits : m <= k

\* the loop over the words: one word
NextWord ==
    /\ run.pc = "words"
    /\ run.words /= <<>>
    /\ LET word == Head(run.words)
           fontSize == run.w.Calculated.FontSize
           availableWidth == run.w.Calculated.InnerWidth
           wordWidth == measureTextWidth(fontSize, <<word>>)
           spaceWidth == measureTextWidth(fontSize, <<1>>)
       IN  run' =
             IF wordWidth > availableWidth
             THEN [run EXCEPT !.lines = run.lines \o Flush(run.line),
                              !.remainingWord = word,
                              !.words = Tail(run.words),
                              !.pc = "longWord"]
             ELSE IF run.lineWidth + wordWidth > availableWidth
             THEN [run EXCEPT !.lines = run.lines \o Flush(run.line),
                              !.line = <<word>>, !.lineWidth = wordWidth,
                              !.words = Tail(run.words)]
             ELSE [run EXCEPT !.line = Append(run.line, word),
                              !.lineWidth = run.lineWidth + wordWidth + spaceWidth,
                              !.words = Tail(run.words)]
    /\ UNCHANGED Others

\* one pass of the long-word loop: a part of the word becomes a line
LongWordPart ==
    /\ run.pc = "longWord"
    /\ run.remainingWord > 0
    /\ LET k == longWordPart(run.remainingWord,
                             measureTextWidth(run.w.Calculated.FontSize, <<1>>),
                             run.w.Calculated.InnerWidth)
       IN  run' = [run EXCEPT !.lines = Append(run.lines, <<k>>),
                              !.remainingWord = run.remainingWord - k]
    /\ UNCHANGED Others

\* the long word is used up: the line restarts empty
LongWordEnd ==
    /\ run.pc = "longWord"
    /\ run.remainingWord = 0
    /\ run' = [run EXCEPT !.line = <<>>, !.lineWidth = 0, !.pc = "words"]
    /\ UNCHANGED Others

\* the words of the line are used up: what is left of the line is appended
EndTextLine ==
    /\ run.pc = "words"
    /\ run.words = <<>>
    /\ run' = [run EXCEPT !.lines = run.lines \o Flush(run.line),
                          !.line = <<>>, !.pc = "textLines"]
    /\ UNCHANGED Others

SplitLinesReturn ==
    /\ run.pc = "textLines"
    /\ run.text = <<>>
    /\ run' = [run EXCEPT !.pc = "buf"]
    /\ UNCHANGED Others

\* the rest of wrapText: the value lines and, without a declared height,
\* the heights
WrapTextFinish ==
    /\ run.pc = "buf"
    /\ LET buf == run.lines
           lines == IF run.w.Wrap /\ Len(buf) > 0 THEN SubSeq(buf, 1, 1) ELSE buf
           w1 == [run.w EXCEPT !.ValueLines = lines, !.hasLines = TRUE]
       IN  run' = [run EXCEPT
                     !.pc = "wrapped",
                     !.w = IF run.w.Height = 0
                           THEN recalculateFromInnerHeight(
                                    [w1 EXCEPT !.Calculated.InnerHeight =
                                        Len(lines) * run.w.Calculated.LineHeight])
                           ELSE w1]
    /\ UNCHANGED Others

WrapNext ==
    \/ WrapTextStart
    \/ NextTextLine
    \/ NextWord
    \/ LongWordPart
    \/ LongWordEnd
    \/ EndTextLine
    \/ SplitLinesReturn
    \/ WrapTextFinish

WrapSpec == WrapInit /\ [][WrapNext]_vars

Wrapped == run.pc = "wrapped"

\* C11: after the wrap pass every value line of a text widget is, measured
\* at the widget's computed font size, at most as wide as the widget's
\* inner width, or is a single character
WrappedLinesFit ==
    Wrapped =>
        \A k \in 1..Len(run.w.ValueLines) :
            \/ measureTextWidth(run.w.Calculated.FontSize, run.w.ValueLines[k])
                  <= run.w.Calculated.InnerWidth
            \/ StrLen(run.w.ValueLines[k]) = 1

\* what splitLines still has to go through: the characters of the word being
\* cut, the words of the line, the lines of the text, and the loop it is in
RECURSIVE WordsLeft(_)
WordsLeft(words) ==
    IF words = <<>> THEN 0 ELSE Head(words) + 2 + WordsLeft(Tail(words))

RECURSIVE TextLeft(_)
TextLeft(text) ==
    IF text = <<>> THEN 0 ELSE 2 + WordsLeft(Head(text)) + TextLeft(Tail(text))

WorkLeft(r) ==
    r.remainingWord + WordsLeft(r.words) + TextLeft(r.text)
    + (IF r.pc \in {"textLines", "words", "longWord"} THEN 1 ELSE 0)
    + (IF r.pc \in {"words", "longWord"} THEN 1 ELSE 0)
    + (IF r.pc = "longWord" THEN 1 ELSE 0)

InSplitLines(r) == r.pc \in {"textLines", "words", "longWord"}

\* C12: splitLines terminates for every text and every available width:
\* every step of its loops leaves less to go through, and every pass of the
\* long-word loop takes at least one character from the remaining word
SplitLinesTerminates ==
    [][InSplitLines(run) =>
          /\ WorkLeft(run') < WorkLeft(run)
          /\ WorkLeft(run') >= 0
          /\ (run.pc = "longWord" /\ run'.pc = "longWord")
                => run'.remainingWord < run.remainingWord]_vars

\* a word was cut where not even one character fits the available width
SplitLinesTerminatesWitness ==
    /\ run.pc = "longWord"
    /\ run.remainingWord = 0
    /\ run.w.Calculated.InnerWidth < run.w.Calculated.FontSize
    /\ Len(run.lines) >= 7

(***************************************************************************)
(* Two runs on the same input: the page is laid out, then parsed and laid *)
(* out again, and the two outputs are compared.                           *)
(***************************************************************************)
TwinInit ==
    /\ InputWith(PageChildren, BOOLEAN)
    /\ run = [pc |-> "first", heap |-> heap, children |-> children,
              pages |-> <<>>, out |-> <<>>]

\* the document of the second run: Parse builds a new tree from the XML, it
\* does not take up the tree the first run laid out in place
ReparseSkipped(parsed, laidOut) == laidOut
Reparse(parsed, laidOut) == parsed

\* the first run is over: its output is kept and the second run starts
RunAgain ==
    /\ pc = "done"
    /\ run.pc = "first"
    /\ run' = [run EXCEPT !.pc = "second", !.pages = pages, !.out = heap]
    /\ LET doc == Reparse([heap |-> run.heap, children |-> run.children],
                          [heap |-> heap, children |-> children])
       IN  /\ heap' = doc.heap
           /\ children' = doc.children
    /\ pc' = "start"
    /\ pages' = <<>>
    /\ i' = 1
    /\ currentY' = 0
    /\ curPage' = 0
    /\ st' = NoSplit
    /\ UNCHANGED <<page, formatter, num, lay>>

TwinNext == Next \/ RunAgain

TwinSpec == TwinInit /\ [][TwinNext]_vars

MaxCells == 2        \* cells of a table row
MaxTableRows == 2    \* row elements of a table

NoAttrs == [carryColumn |-> Nil, carry |-> FALSE, imgWidth |-> 0, imgHeight |-> 0,
            data |-> ""]

CharData == [tag |-> "#text", attrs |-> NoAttrs, Child |-> <<>>]

Element(tag, attrs, child) == [tag |-> tag, attrs |-> attrs, Child |-> child]

ChildElements(el) == SelectSeq(el.Child, LAMBDA t : t.tag /= "#text")

\* the inputs: divs, images, tables, pages and documents made of them
DivElements ==
    LET empty == Element("div", NoAttrs, <<>>)
        text  == Element("div", NoAttrs, <<CharData>>)
    IN  {empty, text, Element("div", NoAttrs, <<text>>),
         Element("div", NoAttrs, <<CharData, empty>>)}

ImageElements ==
    {Element("image", [NoAttrs EXCEPT !.imgWidth = iw, !.imgHeight = ih, !.data = d], <<>>) :
        iw \in {0, 40}, ih \in {0, 30}, d \in {"", "png"}}

CellElement == Element("cell", NoAttrs, <<CharData>>)

RowElements ==
    {Element("row", NoAttrs, [k \in 1..n |-> CellElement]) : n \in 0..MaxCells}

ColumnsElements ==
    {Element("columns", NoAttrs,
             <<Element("column", NoAttrs, <<>>),
               Element("column", [NoAttrs EXCEPT !.carry = c], <<>>)>>) : c \in BOOLEAN}

TableElements ==
    {Element("table", [NoAttrs EXCEPT !.carryColumn = cc], cols \o rows) :
        cc \in {Nil, 0, 1},
        cols \in {<<>>} \cup {<<c>> : c \in ColumnsElements},
        rows \in UNION {[1..n -> RowElements] : n \in 1..MaxTableRows}}

BlockElements == DivElements \cup ImageElements \cup TableElements

PageElements ==
    {Element("page", NoAttrs, <<>>), Element("page", NoAttrs, <<CharData>>)}
    \cup {Element("page", NoAttrs, <<b>>) : b \in BlockElements}
    \cup {Element("page", NoAttrs, <<CharData, b>>) : b \in DivElements \cup ImageElements}

DocumentElements ==
    {Element("document", NoAttrs, <<>>)}
    \cup {Element("document", NoAttrs, <<p>>) : p \in PageElements}
    \cup {Element("document", NoAttrs, <<p, Element("page", NoAttrs, <<CharData>>)>>) :
            p \in PageElements}
    \cup {Element("document", NoAttrs, <<b>>) : b \in DivElements}

XmlRoots == BlockElements \cup PageElements \cup DocumentElements

\* a widget as the parser leaves it; NoWidget is the nil *Widget
parseWidget(el) ==
    [Type |-> el.tag, hasLines |-> FALSE, Children |-> <<>>, Columns |-> <<>>,
     CarryColumn |-> Nil, Width |-> 0, Height |-> 0, ImgWidth |-> 0, ImgHeight |-> 0,
     Bytes |-> ""]

NoWidget == parseWidget([tag |-> "nil"])

Parsed(w) == [err |-> FALSE, w |-> w]

ParseError == [err |-> TRUE, w |-> NoWidget]

parseImage(el) ==
    LET img == [parseWidget(el) EXCEPT !.ImgWidth = el.attrs.imgWidth,
                                       !.ImgHeight = el.attrs.imgHeight]
    IN  Parsed([img EXCEPT
                  !.Width  = IF img.Width = 0 /\ img.ImgWidth > 0 THEN img.ImgWidth ELSE @,
                  !.Height = IF img.Height = 0 /\ img.ImgHeight > 0 THEN img.ImgHeight ELSE @,
                  !.Bytes  = el.attrs.data])

RECURSIVE parseElement(_)
RECURSIVE parseContent(_, _)
RECURSIVE parseTableChildren(_, _, _)

\* the loop over el.Child of parseDiv and parseTableCell: character data
\* becomes the widget's own text, an element becomes a child
parseContent(tokens, widget) ==
    IF tokens = <<>> THEN Parsed(widget)
    ELSE IF Head(tokens).tag = "#text"
         THEN parseContent(Tail(tokens), [widget EXCEPT !.hasLines = TRUE])
         ELSE LET r == parseElement(Head(tokens))
              IN  IF r.err THEN ParseError
                  ELSE parseContent(Tail(tokens),
                         IF r.w = NoWidget THEN widget
                         ELSE [widget EXCEPT !.Children = Append(@, r.w)])

parseDiv(el) == parseContent(el.Child, parseWidget(el))

parseTableCell(el) == parseContent(el.Child, parseWidget(el))

parseTableRow(el) ==
    LET cells == SelectSeq(ChildElements(el), LAMBDA c : c.tag = "cell")
        parsed == [k \in 1..Len(cells) |-> parseTableCell(cells[k])]
    IN  IF \E k \in 1..Len(cells) : parsed[k].err THEN ParseError
        ELSE Parsed([parseWidget(el) EXCEPT
                       !.Children = [k \in 1..Len(cells) |-> parsed[k].w]])

parseTableColumn(el) == [parseWidget(el) EXCEPT !.Type = "column"]

\* the carry column is the last <column carry="true">, counted from 0
parseTableColumns(el, table) ==
    LET cols == SelectSeq(ChildElements(el), LAMBDA c : c.tag = "column")
        carrying == {k \in 1..Len(cols) : cols[k].attrs.carry}
    IN  [table EXCEPT
           !.Columns = @ \o [k \in 1..Len(cols) |-> parseTableColumn(cols[k])],
           !.CarryColumn = IF carrying = {} THEN @
                           ELSE (CHOOSE k \in carrying : \A j \in carrying : j <= k) - 1]

\* the header row made of the columns, put in front of the rows
addTableHeaderColumns(table) ==
    IF Len(table.Columns) = 0 THEN table
    ELSE [table EXCEPT !.Children =
            <<[parseWidget([tag |-> "row"]) EXCEPT !.Children =
                 [k \in 1..Len(table.Columns) |->
                    [table.Columns[k] EXCEPT !.Type = "cell"]]]>> \o @]

parseTableChildren(els, table, anyRow) ==
    IF els = <<>> THEN Parsed(table)
    ELSE LET child == Head(els)
         IN  CASE child.tag = "columns" ->
                    parseTableChildren(Tail(els), parseTableColumns(child, table), anyRow)
               [] child.tag = "row" ->
                    LET withHeader == IF anyRow THEN table
                                      ELSE addTableHeaderColumns(table)
                        row == parseTableRow(child)
                    IN  IF row.err THEN ParseError
                        ELSE parseTableChildren(Tail(els),
                               [withHeader EXCEPT !.Children = Append(@, row.w)], TRUE)
               [] OTHER -> parseTableChildren(Tail(els), table, anyRow)

\* the table element's own attributes that are read do not include carryColumn
parseTable(el) == parseTableChildren(ChildElements(el), parseWidget(el), FALSE)

parseElement(el) ==
    CASE el.tag = "div"   -> parseDiv(el)
      [] el.tag = "image" -> parseImage(el)
      [] el.tag = "table" -> parseTable(el)
      [] OTHER            -> ParseError

\* character data directly in a page becomes a text div
parseToken(tk) ==
    IF tk.tag = "#text"
    THEN Parsed([parseWidget([tag |-> "div"]) EXCEPT !.hasLines = TRUE])
    ELSE parseElement(tk)

parsePage(el) ==
    IF el.tag /= "page" THEN ParseError
    ELSE LET parsed == [k \in 1..Len(el.Child) |-> parseToken(el.Child[k])]
         IN  IF \E k \in 1..Len(el.Child) : parsed[k].err THEN ParseError
             ELSE Parsed([parseWidget(el) EXCEPT
                            !.Children = [k \in 1..Len(el.Child) |-> parsed[k].w]])

\* the root that is parsed: the implicit document and page take the child
\* elements of the given root
ImplicitRoot(root) ==
    IF root.tag /= "document"
    THEN IF root.tag /= "page"
         THEN Element("document", NoAttrs,
                      <<Element("page", NoAttrs, ChildElements(root))>>)
         ELSE Element("document", NoAttrs, ChildElements(root))
    ELSE root

NoDocument == [err |-> TRUE, Pages |-> <<>>]

Parse(xml) ==
    LET root == ImplicitRoot(xml)
        els == ChildElements(root)
        parsed == [k \in 1..Len(els) |-> parsePage(els[k])]
    IN  IF \E k \in 1..Len(els) : parsed[k].err THEN NoDocument
        ELSE [err |-> FALSE, Pages |-> [k \in 1..Len(els) |-> parsed[k].w]]

\* what image.Decode reports of the bytes of an image
ImageBounds == [Dx |-> 20, Dy |-> 10]

DefaultImageSide == 100

initImageSizeWidget(w) ==
    LET decoded == w.Bytes /= ""
        w1 == IF w.ImgWidth = 0 /\ w.Width /= 0 THEN [w EXCEPT !.ImgWidth = w.Width] ELSE w
        w2 == CASE w1.ImgWidth = 0 /\ w1.ImgHeight = 0 /\ decoded ->
                     [w1 EXCEPT !.ImgWidth = ImageBounds.Dx, !.ImgHeight = ImageBounds.Dy]
                [] w1.ImgWidth /= 0 /\ w1.ImgHeight = 0 /\ decoded ->
                     [w1 EXCEPT !.ImgHeight = (w1.ImgWidth * ImageBounds.Dy) \div ImageBounds.Dx]
                [] w1.ImgHeight /= 0 /\ w1.ImgWidth = 0 /\ decoded ->
                     [w1 EXCEPT !.ImgWidth = (w1.ImgHeight * ImageBounds.Dx) \div ImageBounds.Dy]
                [] OTHER -> w1
        w3 == [w2 EXCEPT !.ImgWidth  = IF @ = 0 THEN DefaultImageSide ELSE @,
                         !.ImgHeight = IF @ = 0 THEN DefaultImageSide ELSE @]
    IN  [w3 EXCEPT !.Width = w3.ImgWidth, !.Height = w3.ImgHeight]

RECURSIVE initImageSizes(_)
\* initFixedSizes as far as images go: every image of the tree is sized
initImageSizes(w) ==
    IF w.Type = "image" THEN initImageSizeWidget(w)
    ELSE [w EXCEPT !.Children = [k \in 1..Len(w.Children) |-> initImageSizes(w.Children[k])]]

\* adjustColumns panics when a row has no cell at a column of the first row
adjustColumnsPanics(table) ==
    /\ Len(table.Children) > 0
    /\ LET columnCount == Len(table.Children[1].Children)
       IN  \E r \in 1..Len(table.Children) : \E c \in 0..(columnCount - 1) :
              Len(table.Children[r].Children) <= c

SetLayout(doc) ==
    IF \E k \in 1..Len(doc.Pages) : \E w \in Widgets(doc.Pages[k]) :
          w.Type = "table" /\ adjustColumnsPanics(w)
    THEN [panic |-> TRUE, Pages |-> <<>>]
    ELSE [panic |-> FALSE,
          Pages |-> [k \in 1..Len(doc.Pages) |-> initImageSizes(doc.Pages[k])]]

\* renderImage refuses an image with one side only
renderImage(w) ==
    IF w.ImgWidth /= 0 \/ w.ImgHeight /= 0
    THEN IF w.ImgWidth = 0 \/ w.ImgHeight = 0 THEN "error" ELSE "sized"
    ELSE "plain"

Render(doc) ==
    IF \E k \in 1..Len(doc.Pages) : \E w \in Widgets(doc.Pages[k]) :
          w.Type = "image" /\ renderImage(w) = "error"
    THEN "renderError" ELSE "rendered"

DocInit ==
    /\ IdlePassive
    /\ \E xml \in XmlRoots :
          run = [pc |-> "xml", xml |-> xml, doc |-> NoDocument, out |-> NoDocument]

ParseXML ==
    /\ run.pc = "xml"
    /\ LET doc == Parse(run.xml)
       IN  run' = [run EXCEPT !.pc = IF doc.err THEN "parseError" ELSE "parsed",
                              !.doc = doc]
    /\ UNCHANGED Others

LayoutDocument ==
    /\ run.pc = "parsed"
    /\ LET out == SetLayout(run.doc)
       IN  run' = [run EXCEPT !.pc = IF out.panic THEN "panic" ELSE "laidOut",
                              !.out = [err |-> out.panic, Pages |-> out.Pages]]
    /\ UNCHANGED Others

RenderDocument ==
    /\ run.pc = "laidOut"
    /\ run' = [run EXCEPT !.pc = Render(run.out)]
    /\ UNCHANGED Others

DocNext == ParseXML \/ LayoutDocument \/ RenderDocument

DocSpec == DocInit /\ [][DocNext]_vars

\* the document with the given root written out in full
Explicit(xml) ==
    IF xml.tag = "page" THEN Element("document", NoAttrs, <<xml>>)
    ELSE Element("document", NoAttrs, <<Element("page", NoAttrs, <<xml>>)>>)

\* C14: a root that is not a document is parsed as the document it stands
\* for (a page P as <document>P</document>, any other element R as
\* <document><page>R</page></document>), and Parse succeeds on it
ImplicitRootWrapped ==
    (run.pc \in {"parsed", "parseError"} /\ run.xml.tag /= "document")
        => (run.pc = "parsed" /\ run.doc = Parse(Explicit(run.xml)))

\* the tables of the parsed document
ParsedTables ==
    UNION {{w \in Widgets(run.doc.Pages[k]) : w.Type = "table"} :
              k \in 1..Len(run.doc.Pages)}

\* C16: layout aborts on a table with a row whose cell count is not that of
\* its first row, fewer or more: a layout that ends normally had none
RowShapeEnforced ==
    (run.pc \in {"laidOut", "rendered", "renderError"})
        => \A t \in ParsedTables : \A r \in 1..Len(t.Children) :
              Len(t.Children[r].Children) = Len(t.Children[1].Children)

\* the images of the XML input
RECURSIVE ImagesOf(_)
ImagesOf(el) ==
    (IF el.tag = "image" THEN {el} ELSE {})
    \cup UNION {ImagesOf(el.Child[k]) : k \in 1..Len(el.Child)}

OneSided(el) == (el.attrs.imgWidth = 0) /= (el.attrs.imgHeight = 0)

\* C17: an image with exactly one of imgWidth and imgHeight makes Render
\* report an error: such a document is never rendered
OneSidedImageRejected ==
    (run.pc = "rendered") => \A el \in ImagesOf(run.xml) : ~OneSided(el)

\* the table elements of the XML input
RECURSIVE TablesOf(_)
TablesOf(el) ==
    (IF el.tag = "table" THEN {el} ELSE {})
    \cup UNION {TablesOf(el.Child[k]) : k \in 1..Len(el.Child)}

\* C18: a table element's carryColumn attribute is the CarryColumn of the
\* table widget that Parse makes of it
CarryColumnAttribute ==
    (run.pc = "parsed" /\ run.xml.tag = "document")
        => \A el \in TablesOf(run.xml) :
              el.attrs.carryColumn /= Nil
                 => \E t \in ParsedTables :
                       /\ t = parseTable(el).w
                       /\ t.CarryColumn = el.attrs.carryColumn

(***************************************************************************)
(* splitPage moving a child to a new output page                           *)
(***************************************************************************)
\* the pass of splitPage's loop that is about to run finds a non-table
\* child that does not fit below currentY on a page that holds a child
DoesNotFit ==
    /\ pc = "loop"
    /\ i <= Len(children)
    /\ curPage /= 0
    /\ Len(pages[curPage].kids) > 0
    /\ heap[children[i]].type /= "table"
    /\ currentY + heap[children[i]].outerH > page.innerHeight

\* the widgets of ids that declare no y lie one below the other from y
RECURSIVE Reflowed(_, _, _, _)
Reflowed(h, ids, y, gap) ==
    IF ids = <<>> THEN TRUE
    ELSE LET w == h[Head(ids)] IN
         IF w.Y = 0
         THEN w.outerY = y /\ Reflowed(h, Tail(ids), y + w.outerH + gap, gap)
         ELSE Reflowed(h, Tail(ids), y, gap)

\* the child opens a new output page, and the children from it on that
\* declare no y are re-flowed from 0 with the page's gap
MovedToNewPage ==
    /\ Len(pages') = Len(pages) + 1
    /\ curPage' = Len(pages')
    /\ pages'[curPage'].kids = <<children[i]>>
    /\ Reflowed(heap', Suffix(children, i - 1), 0, page.gap)

SourceRow0(w) == IF heap[w].hasColumns THEN 0 ELSE 1

\* rows from the second on are rows of the authored table, in its order
InSourceOrder(rows) ==
    \A k \in 2..Len(rows) :
        /\ ~rows[k].copy
        /\ k > 2 => rows[k - 1].src < rows[k].src

\* C19: every clone after the first of a table split into several clones
\* has a copy of the source table's row 0 as its row 0, followed by the
\* remaining data rows in their original order
HeaderRowRepeated ==
    Done =>
        \A w \in 1..Len(heap) :
            (IsSourceTable(w) /\ Len(Clones(w)) > 1) =>
                \A j \in 2..Len(Clones(w)) :
                    LET rows == heap[Clones(w)[j]].rows IN
                    /\ Len(rows) >= 1
                    /\ rows[1].copy
                    /\ rows[1].src = SourceRow0(w)
                    /\ InSourceOrder(rows)

(***************************************************************************)
(* initSizes on a whole document: the style pass from the document down,   *)
(* then initPageSize page by page, which styles the header and the footer  *)
(* and, in initFixedSizes, the carry header and carry footer of a table.   *)
(* The tables here have no rows, so that adjustColumns returns at once.    *)
(***************************************************************************)
Style(family, fontSize, lineHeight, color, bold) ==
    [FontFamily |-> family, FontSize |-> fontSize, LineHeight |-> lineHeight,
     Color |-> color, Bold |-> bold]

NoStyle == Style(NoFamily, 0, 0, NoColor, FALSE)

\* what an author declares on a widget
Styles ==
    {NoStyle,
     Style(RobotoBold, 0, 0, NoColor, FALSE),
     Style(NoFamily, 0, 0, NoColor, TRUE),
     Style(Roboto, 0, 0, NoColor, TRUE),
     Style(Roboto, 11, 0, "red", FALSE),
     Style(NoFamily, 0, 11, NoColor, FALSE)}

Styled(w, s) ==
    [w EXCEPT !.FontFamily = s.FontFamily, !.FontSize = s.FontSize,
              !.LineHeight = s.LineHeight, !.Color = s.Color, !.Bold = s.Bold]

TextDiv(s) == Styled(Leaf(0, <<NoBox, NoBox>>, <<<<3, 2>>>>), s)

Group(s, kids) == Styled(Widget(0, NoBox, NoBox, 0, "", NoText, kids), s)

CarryTable(s, carryStyle) ==
    [Group(s, <<>>) EXCEPT !.type = "table",
                           !.CarryHeader = <<TextDiv(carryStyle)>>,
                           !.CarryFooter = <<TextDiv(NoStyle)>>]

StylePageKids ==
    {<<TextDiv(s)>> : s \in Styles}
    \cup {<<Group(s, <<TextDiv(NoStyle)>>), CarryTable(NoStyle, c)>> :
            s \in Styles, c \in {NoStyle, Style(Roboto, 0, 0, NoColor, FALSE)}}
    \cup {<<CarryTable(s, NoStyle)>> : s \in Styles}

\* parsePage: a page without width and height takes the document's
StylePage(s, kids) ==
    [Group(s, kids) EXCEPT !.type = "page", !.Width = 288, !.Height = 720]

\* Parse: the document's font family, font size, line height and colour
\* are its attributes or their defaults
StyleDocument(family, pageSeq) ==
    [Group(Style(family, DocFontSize, DocFontSize, "#222", FALSE), pageSeq)
        EXCEPT !.type = "document", !.Width = 288, !.Height = 720]

OptionalDivs == {<<>>, <<TextDiv(NoStyle)>>, <<TextDiv(Style(Roboto, 0, 0, NoColor, TRUE))>>}

StyleInit ==
    /\ num = NumIdle
    /\ run = RunIdle
    /\ pc = "idle"
    /\ page = [innerHeight |-> 0, gap |-> 0, reset |-> FALSE]
    /\ children = <<>>
    /\ heap = <<>>
    /\ pages = <<>>
    /\ i = 0
    /\ currentY = 0
    /\ curPage = 0
    /\ st = NoSplit
    /\ formatter = FALSE
    /\ \E family \in {Roboto, RobotoBold}, s \in Styles, kids \in StylePageKids,
          header \in OptionalDivs, footer \in {<<>>, <<TextDiv(NoStyle)>>},
          second \in BOOLEAN :
          lay = [pc |-> "document", p |-> 0,
                 doc |-> StyleDocument(family,
                            <<StylePage(s, kids)>> \o
                            (IF second THEN <<StylePage(NoStyle, <<>>)>> ELSE <<>>)),
                 Pages |-> <<[Header |-> header, Footer |-> footer]>> \o
                           (IF second THEN <<[Header |-> <<>>, Footer |-> footer]>>
                            ELSE <<>>)]

initWidgetSize(w, innerWidth) ==
    initWidgetsHeight(reflowTexts(initWidgetsWidth(initFixedSizes(w), innerWidth)))

addjustCalculatedSize(w) == addjustCalculatedHeight(addjustCalculatedWidth(w))

\* initSizes: the document has no parent
InitSizesDocument ==
    /\ lay.pc = "document"
    /\ lay' = [lay EXCEPT !.pc = "pages",
                          !.doc = initCalculatedInfo(lay.doc, ZeroCalculated)]
    /\ UNCHANGED <<PagVars, num, run>>

\* initPageSize on the next page of the document
InitPageSize ==
    /\ lay.pc = "pages"
    /\ lay.p < Len(lay.doc.Children)
    /\ LET k == lay.p + 1
           sized == addjustCalculatedSize(lay.doc.Children[k])
           outer(c) == [j \in 1..Len(c) |->
                          initWidgetSize(initCalculatedInfo(c[j], sized.Calculated),
                                         sized.Calculated.OuterWidth)]
       IN  lay' = [lay EXCEPT
                     !.p = k,
                     !.Pages[k].Header = outer(@),
                     !.Pages[k].Footer = outer(@),
                     !.doc.Children[k] =
                        [sized EXCEPT !.Children =
                            [j \in 1..Len(sized.Children) |->
                                initWidgetSize(sized.Children[j],
                                               sized.Calculated.InnerWidth)]]]
    /\ UNCHANGED <<PagVars, num, run>>

InitSizesReturn ==
    /\ lay.pc = "pages"
    /\ lay.p = Len(lay.doc.Children)
    /\ lay' = [lay EXCEPT !.pc = "styled"]
    /\ UNCHANGED <<PagVars, num, run>>

StyleNext == InitSizesDocument \/ InitPageSize \/ InitSizesReturn

StyleSpec == StyleInit /\ [][StyleNext]_vars

\* the family without the 'Bold' parts it ends with
RECURSIVE WithoutBold(_)
WithoutBold(family) ==
    IF Len(family) > 0 /\ family[Len(family)] = "Bold"
    THEN WithoutBold(SubSeq(family, 1, Len(family) - 1))
    ELSE family

\* the computed style of w is its declared style where it declares one and
\* its parent's computed style elsewhere; the family is that up to the
\* 'Bold' it ends with, which is there once when w is bold
Inherits(w, parent) ==
    LET c == w.Calculated
        family == IF w.FontFamily /= NoFamily THEN w.FontFamily ELSE parent.FontFamily
    IN  /\ c.FontSize = (IF w.FontSize /= 0 THEN w.FontSize ELSE parent.FontSize)
        /\ c.LineHeight = (IF w.LineHeight /= 0 THEN w.LineHeight ELSE parent.LineHeight)
        /\ c.Color = (IF w.Color /= NoColor THEN w.Color ELSE parent.Color)
        /\ c.Bold = (w.Bold \/ parent.Bold)
        /\ WithoutBold(c.FontFamily) = WithoutBold(family)
        /\ ~c.Bold => c.FontFamily = family
        /\ c.Bold => c.FontFamily = Append(WithoutBold(family), "Bold")

RECURSIVE InheritsAll(_, _)
InheritsAll(w, parent) ==
    /\ Inherits(w, parent)
    /\ \A k \in 1..Len(w.Children) : InheritsAll(w.Children[k], w.Calculated)
    /\ \A k \in 1..Len(w.CarryHeader) : InheritsAll(w.CarryHeader[k], w.Calculated)
    /\ \A k \in 1..Len(w.CarryFooter) : InheritsAll(w.CarryFooter[k], w.Calculated)

adjustCalculatedPositionFromInner(w) ==
    LET innerX == w.Calculated.InnerX + (IF w.Margin.nil THEN 0 ELSE w.Margin.Left)
        innerY == w.Calculated.InnerY + (IF w.Margin.nil THEN 0 ELSE w.Margin.Top)
    IN  [w EXCEPT !.Calculated.OuterX = w.Calculated.InnerX,
                  !.Calculated.InnerX = innerX,
                  !.Calculated.X = innerX + (IF w.Padding.nil THEN 0 ELSE w.Padding.Left),
                  !.Calculated.OuterY = w.Calculated.InnerY,
                  !.Calculated.InnerY = innerY,
                  !.Calculated.Y = innerY + (IF w.Padding.nil THEN 0 ELSE w.Padding.Top)]

\* where the first child of w starts along x: at 0, or for a right-aligned
\* row at what the children and the gaps between them leave free
rowStartLeft(w) == 0
rowStart(w) ==
    IF w.Align = "right" /\ w.Calculated.Direction = "row"
    THEN LET gap == w.Gap * (Len(w.Children) - 1)
         IN  w.Calculated.InnerWidth
                - (SumOuterWidth(w.Children) + (IF gap > 0 THEN gap ELSE 0))
    ELSE 0

RECURSIVE setWidgetPosition(_, _, _)
RECURSIVE placeChildren(_, _, _, _)

\* the loop of setWidgetPosition over the children, with its cursor
placeChildren(w, kids, x, y) ==
    IF kids = <<>> THEN <<>>
    ELSE LET child == Head(kids)
             column == w.Calculated.Direction = "column"
             x1 == IF w.Align = "right" /\ column
                   THEN w.Calculated.InnerWidth - child.Calculated.OuterWidth
                   ELSE x
             placed == adjustCalculatedPositionFromInner(
                          [child EXCEPT
                             !.Calculated.InnerX = IF child.X /= 0 THEN child.X ELSE x1,
                             !.Calculated.InnerY = IF child.Y /= 0 THEN child.Y ELSE y])
             done == setWidgetPosition(placed, placed.Calculated.OuterX,
                                       placed.Calculated.OuterY)
         IN  <<done>> \o
             placeChildren(w, Tail(kids),
                           IF column THEN x1 ELSE x1 + child.Calculated.OuterWidth + w.Gap,
                           IF column THEN y + child.Calculated.OuterHeight + w.Gap ELSE y)

setWidgetPosition(w, parentX, parentY) ==
    LET w1 == adjustCalculatedPositionFromInner(
                 [w EXCEPT !.Calculated.InnerX = IF w.X /= 0 THEN w.X ELSE parentX,
                           !.Calculated.InnerY = IF w.Y /= 0 THEN w.Y ELSE parentY])
    IN  IF Len(w.Children) = 0 THEN w1
        ELSE [w1 EXCEPT !.Children = placeChildren(w1, w1.Children, rowStart(w1), 0)]

\* the page children that are positioned: containers, left or right
\* aligned, of leaves and of one container, one leaf with a declared x
Aligned(w, align) == [w EXCEPT !.Align = align]

PosLeaves ==
    {Leaf(72, <<NoBox, NoBox>>, NoText),
     Leaf(72, <<Box(72), NoBox>>, NoText),
     Leaf(0, <<NoBox, Box(72)>>, <<<<3, 2>>>>),
     [Leaf(72, <<NoBox, NoBox>>, NoText) EXCEPT !.X = 36]}

PosKids ==
    PosLeaves \cup
    {Aligned(Widget(0, NoBox, NoBox, 72, dir, NoText,
                    <<Leaf(72, <<NoBox, NoBox>>, <<<<3, 2>>>>),
                      Leaf(72, <<NoBox, NoBox>>, NoText)>>), "right") :
        dir \in {"", "row"}}

PosRoots ==
    {Aligned(Widget(0, NoBox, NoBox, gap, dir, NoText, kids), align) :
        gap \in Gaps, dir \in {"", "row"}, align \in {"", "right"},
        kids \in UNION {[1..n -> PosKids] : n \in 1..MaxKids}}

\* the page child after initSizes
PosInit ==
    /\ \E root \in PosRoots, width \in PageInnerWidths :
          lay = [pc |-> "sized", innerWidth |-> width,
                 w |-> initWidgetSize(initCalculatedInfo(root, PageCalculated), width)]
    /\ num = NumIdle
    /\ run = RunIdle
    /\ pc = "idle"
    /\ page = [innerHeight |-> 0, gap |-> 0, reset |-> FALSE]
    /\ children = <<>>
    /\ heap = <<>>
    /\ pages = <<>>
    /\ i = 0
    /\ currentY = 0
    /\ curPage = 0
    /\ st = NoSplit
    /\ formatter = FALSE

\* setPagePositions on the page child
SetWidgetPosition ==
    /\ lay.pc = "sized"
    /\ lay' = [lay EXCEPT !.pc = "positioned", !.w = setWidgetPosition(lay.w, 0, 0)]
    /\ UNCHANGED <<PagVars, num, run>>

PosNext == SetWidgetPosition

PosSpec == PosInit /\ [][PosNext]_vars

\* the sum of the outer sizes and gaps of the children before child k
RECURSIVE Before(_, _, _, _)
Before(kids, k, gap, column) ==
    IF k <= 1 THEN 0
    ELSE Before(kids, k - 1, gap, column)
         + (IF column THEN kids[k - 1].Calculated.OuterHeight
            ELSE kids[k - 1].Calculated.OuterWidth)
         + gap

FlowsFreely(w) ==
    /\ Len(w.Children) > 0
    /\ \A k \in 1..Len(w.Children) : w.Children[k].X = 0 /\ w.Children[k].Y = 0

TableCell(width, align, kids) ==
    [Widget(width, NoBox, Box(36), 0, "row",
            IF kids = <<>> THEN <<<<3, 2>>>> ELSE NoText, kids)
       EXCEPT !.type = "cell", !.Align = align]

Cells ==
    {TableCell(width, align, kids) :
        width \in {0, 144}, align \in {"", "right"},
        kids \in {<<>>, <<Leaf(72, <<NoBox, NoBox>>, <<<<3, 2>>>>)>>}}

Row(cells) == [Widget(0, NoBox, NoBox, 0, "row", NoText, cells) EXCEPT !.type = "row"]

ColTables ==
    {[Widget(0, NoBox, NoBox, 0, "", NoText, rows) EXCEPT !.type = "table"] :
        rows \in {<<Row(cells)>> : cells \in [1..2 -> Cells]}
                 \cup {<<Row(cells), Row(<<TableCell(0, "", <<>>), TableCell(0, "", <<>>)>>)>> :
                          cells \in [1..2 -> Cells]}}

ColInit ==
    /\ \E table \in ColTables, width \in PageInnerWidths :
          lay = [pc |-> "parsed", innerWidth |-> width, w |-> table]
    /\ num = NumIdle
    /\ run = RunIdle
    /\ pc = "idle"
    /\ page = [innerHeight |-> 0, gap |-> 0, reset |-> FALSE]
    /\ children = <<>>
    /\ heap = <<>>
    /\ pages = <<>>
    /\ i = 0
    /\ currentY = 0
    /\ curPage = 0
    /\ st = NoSplit
    /\ formatter = FALSE

ColSpec == ColInit /\ [][LayNext]_vars

\* C24: after layout of any table, every cell that declares an align has
\* it on each of its direct children, whatever the column widths
CellAlignCopied ==
    Sized =>
        \A table \in {w \in Widgets(lay.w) : w.type = "table"} :
            \A r \in 1..Len(table.Children) :
                \A c \in 1..Len(table.Children[r].Children) :
                    LET cell == table.Children[r].Children[c]
                    IN  cell.Align /= "" =>
                            \A k \in 1..Len(cell.Children) :
                                cell.Children[k].Align = cell.Align

(***************************************************************************)
(* The pages splitPage makes from one page.                                *)
(***************************************************************************)
\* C25: of the pages splitPage makes from one source page, only the first
\* can have ResetPageNumbers set
OnlyFirstPageResets ==
    Done => \A p \in 2..Len(pages) : ~pages[p].reset

\* the rows of the authored table among the given rows: their indices in the
\* authored table, the repeated header copies left out
AuthoredAmong(rows) ==
    LET own == SelectSeq(rows, LAMBDA r : ~r.copy)
    IN  [k \in 1..Len(own) |-> own[k].src]

RECURSIVE RowsOverClones(_, _)
RowsOverClones(h, ids) ==
    IF ids = <<>> THEN <<>>
    ELSE AuthoredAmong(h[Head(ids)].rows) \o RowsOverClones(h, Tail(ids))

\* the authored rows of source table w over its clones in page order; while
\* splitTable is in its first pass over w the rows are in its local slice
AuthoredRows(w) ==
    RowsOverClones(heap, Clones(w))
    \o (IF pc = "table" /\ st.w = w /\ st.currentTable = w
        THEN AuthoredAmong(st.rows) ELSE <<>>)

\* C26: the rows of all clones of a table in page order, the repeated
\* header copies left out, are the rows of the source table, each once and
\* in the original order: no step of the split changes that sequence
RowsConserved ==
    [][\A w \in 1..Len(heap) :
          IsSourceTable(w) => AuthoredRows(w)' = AuthoredRows(w)]_vars

\* no child declares a y and none is taller than the page; no table was cut
\* into clones or emptied, so that the heights are those splitPage started
\* with
FlowingChildrenFit ==
    \A w \in 1..Len(heap) :
        /\ heap[w].Y = 0
        /\ heap[w].src = 0
        /\ heap[w].outerH <= page.innerHeight
        /\ heap[w].type = "table" => heap[w].rows /= <<>>

\* C27: when no child declares a position and every child's outer height is
\* at most the page's inner height, every child that is not a table ends
\* inside the inner area of its page, also when it is placed after a table
ChildrenInsidePage ==
    (Done /\ FlowingChildrenFit) =>
        \A w \in Placed :
            heap[w].type /= "table" =>
                heap[w].outerY + heap[w].outerH <= page.innerHeight

(***************************************************************************)
(* The text of a widget through the wrap pass.                             *)
(***************************************************************************)
\* C28: a widget that has value lines after Parse, bare text in a page
\* included, still has value lines after the wrap pass
TextKept ==
    Wrapped => Len(run.w.ValueLines) > 0

(***************************************************************************)
(* The backgrounds of the cells after a table was split.                   *)
(***************************************************************************)
\* C29: in the output of splitting a table with alternateColor every cell
\* whose background the author declared still has that background
DeclaredBackgroundKept ==
    Done =>
        \A w \in Placed :
            (heap[w].type = "table" /\ heap[w].alt) =>
                \A r \in 1..Len(heap[w].rows) : \A c \in 1..Len(heap[w].rows[r].cells) :
                    LET cell == heap[w].rows[r].cells[c] IN
                    cell.declared /= "nil" => cell.bg = cell.declared

(***************************************************************************)
(* The children of the source page over the output pages.                  *)
(***************************************************************************)
\* the children of the output pages, read in page order
RECURSIVE KidsFrom(_)
KidsFrom(p) == IF p > Len(pages) THEN <<>> ELSE pages[p].kids \o KidsFrom(p + 1)

OutputOrder == KidsFrom(1)

NonTables(ids) == SelectSeq(ids, LAMBDA w : heap[w].type /= "table")

====
